---- MODULE Spec2Model ----
(***************************************************************************)
(* Security Guardian: the PR analysis pipeline of agent/graph.py, with the *)
(* pattern scanner (agent/tools/security_scanner.py), the repository       *)
(* client (agent/tools/github_client.py) and the fix generator             *)
(* (agent/tools/code_generator.py).                                        *)
(*                                                                         *)
(* Python strings are sequences of one-character strings.  Regular         *)
(* expressions are sequences of atoms interpreted by a backtracking        *)
(* matcher with the priorities of Python's re module.                      *)
(***************************************************************************)
EXTENDS Integers, Sequences, FiniteSets, TLC

VARIABLES
    fn_in,              \* input and output of a function applied on its own
    fn_out

\* ---------------------------------------------------------------- characters

LowerLetters ==
    {"a","b","c","d","e","f","g","h","i","j","k","l","m","n","o","p","q","r","s","t","u","v",
     "w","x","y","z"}

UpperLetters ==
    {"A","B","C","D","E","F","G","H","I","J","K","L","M","N","O","P","Q","R","S","T","U","V",
     "W","X","Y","Z"}

Digits ==
    {"0","1","2","3","4","5","6","7","8","9"}

\* the backquote character, which a TLA+ string cannot hold
BT ==
    "backquote"

\* str.lower() on one character
LowerMap ==
    ("A" :> "a") @@ ("B" :> "b") @@ ("C" :> "c") @@ ("D" :> "d") @@ ("E" :> "e") @@
    ("F" :> "f") @@ ("G" :> "g") @@ ("H" :> "h") @@ ("I" :> "i") @@ ("J" :> "j") @@
    ("K" :> "k") @@ ("L" :> "l") @@ ("M" :> "m") @@ ("N" :> "n") @@ ("O" :> "o") @@
    ("P" :> "p") @@ ("Q" :> "q") @@ ("R" :> "r") @@ ("S" :> "s") @@ ("T" :> "t") @@
    ("U" :> "u") @@ ("V" :> "v") @@ ("W" :> "w") @@ ("X" :> "x") @@ ("Y" :> "y") @@
    ("Z" :> "z")

LowerChar(c) ==
    IF c \in UpperLetters THEN LowerMap[c] ELSE c

\* str.upper() on one character
UpperChar(c) ==
    IF c \in LowerLetters THEN CHOOSE u \in UpperLetters : LowerMap[u] = c ELSE c

\* str.lower()
Lower(s) ==
    [i \in 1..Len(s) |-> LowerChar(s[i])]

\* str.upper()
Upper(s) ==
    [i \in 1..Len(s) |-> UpperChar(s[i])]

\* the whitespace str.strip() removes and \s matches
Whitespace ==
    {" ", "\t", "\n", "\r"}

Min(a, b) ==
    IF a < b THEN a ELSE b

\* s[:n]
Take(s, n) ==
    SubSeq(s, 1, Min(n, Len(s)))

\* s[n:] for n >= 0
Drop(s, n) ==
    SubSeq(s, n + 1, Len(s))

RECURSIVE LStripFrom(_, _)
LStripFrom(s, i) ==
    IF i <= Len(s) /\ s[i] \in Whitespace THEN LStripFrom(s, i + 1) ELSE i

RECURSIVE RStripFrom(_, _)
RStripFrom(s, j) ==
    IF j >= 1 /\ s[j] \in Whitespace THEN RStripFrom(s, j - 1) ELSE j

\* str.strip()
Strip(s) ==
    SubSeq(s, LStripFrom(s, 1), RStripFrom(s, Len(s)))

\* sub occurs in s at position i
OccursAt(sub, s, i) ==
    /\ i + Len(sub) - 1 <= Len(s)
    /\ \A k \in 1..Len(sub) : s[i + k - 1] = sub[k]

\* sub in s
Contains(s, sub) ==
    \E i \in 1..(Len(s) - Len(sub) + 1) : OccursAt(sub, s, i)

SetMin(S) ==
    CHOOSE x \in S : \A y \in S : x <= y

SetMax(S) ==
    CHOOSE x \in S : \A y \in S : x >= y

\* str.split(sep) for a one-character separator: the pieces between the
\* occurrences of sep
Split(s, sep) ==
    CHOOSE pieces \in
        {[k \in 1..(Cardinality(at) + 1) |->
             LET cut(m) == IF m = 0 THEN 0
                           ELSE IF m = Cardinality(at) + 1 THEN Len(s) + 1
                           ELSE CHOOSE i \in at : Cardinality({j \in at : j < i}) = m - 1
             IN  SubSeq(s, cut(k - 1) + 1, cut(k) - 1)] :
             at \in {{i \in 1..Len(s) : s[i] = sep}}} : TRUE

RECURSIVE Join(_, _)
\* sep.join(parts)
Join(parts, sep) ==
    IF Len(parts) = 0 THEN <<>>
    ELSE IF Len(parts) = 1 THEN parts[1]
    ELSE Join(SubSeq(parts, 1, Len(parts) \div 2), sep) \o sep
         \o Join(SubSeq(parts, Len(parts) \div 2 + 1, Len(parts)), sep)

\* ------------------------------------------------------- regular expressions
\* An atom matches between min and max characters of a class (max is ignored
\* when unbounded); greedy atoms try the longest run first, lazy ones the
\* shortest, as re does.

Atom(cls, neg, min, max, unbounded, lazy) ==
    [cls |-> cls, neg |-> neg, min |-> min, max |-> max, unbounded |-> unbounded,
     lazy |-> lazy]

\* one literal character
Ch(c) ==
    Atom({c}, FALSE, 1, 1, FALSE, FALSE)

\* a literal string
Lit(s) ==
    [i \in 1..Len(s) |-> Ch(s[i])]

\* [cls]
One(cls) ==
    Atom(cls, FALSE, 1, 1, FALSE, FALSE)

\* [cls]*
Star(cls) ==
    Atom(cls, FALSE, 0, 0, TRUE, FALSE)

\* [^cls]+
PlusNot(cls) ==
    Atom(cls, TRUE, 1, 0, TRUE, FALSE)

\* [cls]{n,}
AtLeast(cls, n) ==
    Atom(cls, FALSE, n, 0, TRUE, FALSE)

\* .* without re.DOTALL: any run without a newline
DotStar ==
    Atom({"\n"}, TRUE, 0, 0, TRUE, FALSE)

\* (.*?) with re.DOTALL
LazyAny ==
    Atom({}, TRUE, 0, 0, TRUE, TRUE)

Quotes ==
    {"\"", "'"}

InClass(c, atom, ignorecase) ==
    LET hit == IF ignorecase
               THEN \E d \in atom.cls : LowerChar(d) = LowerChar(c)
               ELSE c \in atom.cls
    IN  hit # atom.neg

\* the first position from pos to last that the atom does not take
FirstStop(stop, pos, last) ==
    IF stop = {} THEN last - pos + 1 ELSE SetMin(stop) - pos

\* how many characters from pos on the atom can take, at most cap
RunLen(s, pos, atom, ignorecase, cap) ==
    FirstStop({i \in pos..Min(Len(s), pos + cap - 1) : ~InClass(s[i], atom, ignorecase)},
              pos, Min(Len(s), pos + cap - 1))

\* the count an atom settles on: rest holds, for each count n the atom can
\* take, the pair of n and the match of the following atoms after it took n
\* characters; greedy atoms prefer the largest count and lazy atoms the
\* smallest
PickFrom(ok, rest, lazy, pos) ==
    IF ok = {} THEN <<>>
    ELSE <<pos>> \o (CHOOSE r \in rest : r[1] = IF lazy THEN SetMin(ok) ELSE SetMax(ok))[2]

PickCount(rest, lazy, pos) ==
    PickFrom({r[1] : r \in {q \in rest : q[2] # <<>>}}, rest, lazy, pos)

RECURSIVE MatchAtoms(_, _, _, _, _)
\* the atoms pat[i..] matched at pos: <<>> when they do not match, else the
\* boundaries <<start of atom i, ..., start of the last atom, end>> (each
\* continuation is matched once: rest is its value)
MatchAtoms(pat, i, s, pos, ignorecase) ==
    IF i > Len(pat) THEN <<pos>>
    ELSE CHOOSE m \in
             {PickCount(rest, pat[i].lazy, pos) :
                  rest \in {{<<n, MatchAtoms(pat, i + 1, s, pos + n, ignorecase)>> :
                                 n \in pat[i].min..RunLen(s, pos, pat[i], ignorecase,
                                                          IF pat[i].unbounded THEN Len(s)
                                                          ELSE pat[i].max)}}} : TRUE

\* found holds, for each start, the pair of the start and the match there
FirstMatch(starts, found) ==
    IF starts = {} THEN <<>> ELSE (CHOOSE r \in found : r[1] = SetMin(starts))[2]

LeftmostMatch(found) ==
    FirstMatch({r[1] : r \in {q \in found : q[2] # <<>>}}, found)

\* re.search(pat, s, flags): the leftmost match's boundaries, <<>> for None
\* (the match at each start is computed once: found is its value)
re_search(pat, s, ignorecase) ==
    CHOOSE m \in
        {LeftmostMatch(found) :
             found \in {{<<st, MatchAtoms(pat, 1, s, st, ignorecase)>> :
                            st \in 1..(Len(s) + 1)}}} : TRUE

\* ------------------------------------------------------------ SecurityScanner
\* [A-Za-z0-9\-_]
TokenChars ==
    LowerLetters \cup UpperLetters \cup Digits \cup {"-", "_"}

\* the 20 of {20,}
TokenMinLen ==
    20

\* r'execute\s*\(\s*["\'].*%s.*["\']'
pat_sql_injection_1 ==
    Lit(<<"e","x","e","c","u","t","e">>) \o <<Star(Whitespace)>> \o Lit(<<"(">>) \o <<Star(Whitespace), One(Quotes), DotStar>> \o Lit(<<"%","s">>) \o <<DotStar, One(Quotes)>>

\* r'execute\s*\(\s*f["\'].*\{.*\}.*["\']'
pat_sql_injection_2 ==
    Lit(<<"e","x","e","c","u","t","e">>) \o <<Star(Whitespace)>> \o Lit(<<"(">>) \o <<Star(Whitespace)>> \o Lit(<<"f">>) \o <<One(Quotes), DotStar>> \o Lit(<<"{">>) \o <<DotStar>> \o Lit(<<"}">>) \o <<DotStar, One(Quotes)>>

\* r'\.raw\s*\(\s*["\'].*\+.*["\']'
pat_sql_injection_3 ==
    Lit(<<".","r","a","w">>) \o <<Star(Whitespace)>> \o Lit(<<"(">>) \o <<Star(Whitespace), One(Quotes), DotStar>> \o Lit(<<"+">>) \o <<DotStar, One(Quotes)>>

\* r'db\.execute\s*\(\s*.*\+.*\)'
pat_sql_injection_4 ==
    Lit(<<"d","b",".","e","x","e","c","u","t","e">>) \o <<Star(Whitespace)>> \o Lit(<<"(">>) \o <<Star(Whitespace), DotStar>> \o Lit(<<"+">>) \o <<DotStar>> \o Lit(<<")">>)

\* r'password\s*=\s*["\'][^"\']+["\']'
pat_hardcoded_credentials_1 ==
    Lit(<<"p","a","s","s","w","o","r","d">>) \o <<Star(Whitespace)>> \o Lit(<<"=">>) \o <<Star(Whitespace), One(Quotes), PlusNot(Quotes), One(Quotes)>>

\* r'api_key\s*=\s*["\'][^"\']+["\']'
pat_hardcoded_credentials_2 ==
    Lit(<<"a","p","i","_","k","e","y">>) \o <<Star(Whitespace)>> \o Lit(<<"=">>) \o <<Star(Whitespace), One(Quotes), PlusNot(Quotes), One(Quotes)>>

\* r'secret\s*=\s*["\'][^"\']+["\']'
pat_hardcoded_credentials_3 ==
    Lit(<<"s","e","c","r","e","t">>) \o <<Star(Whitespace)>> \o Lit(<<"=">>) \o <<Star(Whitespace), One(Quotes), PlusNot(Quotes), One(Quotes)>>

\* r'token\s*=\s*["\'][A-Za-z0-9\-_]{20,}["\']'
pat_hardcoded_credentials_4 ==
    Lit(<<"t","o","k","e","n">>) \o <<Star(Whitespace)>> \o Lit(<<"=">>) \o <<Star(Whitespace), One(Quotes), AtLeast(TokenChars, TokenMinLen), One(Quotes)>>

\* r'AWS_SECRET_ACCESS_KEY\s*=\s*["\'][^"\']+["\']'
pat_hardcoded_credentials_5 ==
    Lit(<<"A","W","S","_","S","E","C","R","E","T","_","A","C","C","E","S","S","_","K","E","Y">>) \o <<Star(Whitespace)>> \o Lit(<<"=">>) \o <<Star(Whitespace), One(Quotes), PlusNot(Quotes), One(Quotes)>>

\* r'innerHTML\s*=\s*.*user'
pat_xss_1 ==
    Lit(<<"i","n","n","e","r","H","T","M","L">>) \o <<Star(Whitespace)>> \o Lit(<<"=">>) \o <<Star(Whitespace), DotStar>> \o Lit(<<"u","s","e","r">>)

\* r'eval\s*\('
pat_xss_2 ==
    Lit(<<"e","v","a","l">>) \o <<Star(Whitespace)>> \o Lit(<<"(">>)

\* r'dangerouslySetInnerHTML'
pat_xss_3 ==
    Lit(<<"d","a","n","g","e","r","o","u","s","l","y","S","e","t","I","n","n","e","r","H","T","M","L">>)

\* r'open\s*\(\s*.*\+.*user'
pat_path_traversal_1 ==
    Lit(<<"o","p","e","n">>) \o <<Star(Whitespace)>> \o Lit(<<"(">>) \o <<Star(Whitespace), DotStar>> \o Lit(<<"+">>) \o <<DotStar>> \o Lit(<<"u","s","e","r">>)

\* r'os\.path\.join\s*\(.*request\.'
pat_path_traversal_2 ==
    Lit(<<"o","s",".","p","a","t","h",".","j","o","i","n">>) \o <<Star(Whitespace)>> \o Lit(<<"(">>) \o <<DotStar>> \o Lit(<<"r","e","q","u","e","s","t",".">>)

\* self.patterns: the categories in dict order, each with its (pattern,
\* description) pairs in list order
patterns ==
    <<
      [vuln_type |-> "sql_injection", patterns |-> <<
        [pattern |-> pat_sql_injection_1, description |->
            <<"S","Q","L"," ","q","u","e","r","y"," ","w","i","t","h"," ","s","t","r","i","n","g"," ","f","o","r","m","a","t","t","i","n","g">>],
        [pattern |-> pat_sql_injection_2, description |->
            <<"S","Q","L"," ","q","u","e","r","y"," ","w","i","t","h"," ","f","-","s","t","r","i","n","g">>],
        [pattern |-> pat_sql_injection_3, description |->
            <<"R","a","w"," ","S","Q","L"," ","w","i","t","h"," ","c","o","n","c","a","t","e","n","a","t","i","o","n">>],
        [pattern |-> pat_sql_injection_4, description |->
            <<"D","a","t","a","b","a","s","e"," ","e","x","e","c","u","t","e"," ","w","i","t","h"," ","s","t","r","i","n","g"," ","c","o","n","c","a","t","e","n","a","t","i","o","n">>]>>],
      [vuln_type |-> "hardcoded_credentials", patterns |-> <<
        [pattern |-> pat_hardcoded_credentials_1, description |->
            <<"H","a","r","d","c","o","d","e","d"," ","p","a","s","s","w","o","r","d">>],
        [pattern |-> pat_hardcoded_credentials_2, description |->
            <<"H","a","r","d","c","o","d","e","d"," ","A","P","I"," ","k","e","y">>],
        [pattern |-> pat_hardcoded_credentials_3, description |->
            <<"H","a","r","d","c","o","d","e","d"," ","s","e","c","r","e","t">>],
        [pattern |-> pat_hardcoded_credentials_4, description |->
            <<"H","a","r","d","c","o","d","e","d"," ","t","o","k","e","n">>],
        [pattern |-> pat_hardcoded_credentials_5, description |->
            <<"A","W","S"," ","c","r","e","d","e","n","t","i","a","l","s">>]>>],
      [vuln_type |-> "xss", patterns |-> <<
        [pattern |-> pat_xss_1, description |->
            <<"P","o","t","e","n","t","i","a","l"," ","X","S","S"," ","v","i","a"," ","i","n","n","e","r","H","T","M","L">>],
        [pattern |-> pat_xss_2, description |->
            <<"e","v","a","l","(",")"," ","u","s","a","g","e"," ","(","X","S","S","/","i","n","j","e","c","t","i","o","n"," ","r","i","s","k",")">>],
        [pattern |-> pat_xss_3, description |->
            <<"R","e","a","c","t"," ","d","a","n","g","e","r","o","u","s","l","y","S","e","t","I","n","n","e","r","H","T","M","L">>]>>],
      [vuln_type |-> "path_traversal", patterns |-> <<
        [pattern |-> pat_path_traversal_1, description |->
            <<"F","i","l","e"," ","o","p","e","r","a","t","i","o","n"," ","w","i","t","h"," ","u","s","e","r"," ","i","n","p","u","t">>],
        [pattern |-> pat_path_traversal_2, description |->
            <<"P","a","t","h"," ","j","o","i","n"," ","w","i","t","h"," ","u","s","e","r"," ","i","n","p","u","t">>]>>]
    >>

\* ------------------------------------------------------------ string literals

s_newline ==
    <<"\n">>

s_diff_old ==
    <<"-","-","-"," ","a","/">>

s_diff_new ==
    <<"+","+","+"," ","b","/">>

s_high_risk ==
    <<"h","i","g","h"," ","r","i","s","k">>

s_critical ==
    <<"c","r","i","t","i","c","a","l">>

s_medium_risk ==
    <<"m","e","d","i","u","m"," ","r","i","s","k">>

s_high ==
    <<"h","i","g","h">>

s_medium ==
    <<"m","e","d","i","u","m">>

s_low ==
    <<"l","o","w">>

s_no_security_issues ==
    <<"n","o"," ","s","e","c","u","r","i","t","y"," ","i","s","s","u","e","s">>

s_no_vulnerabilities ==
    <<"n","o"," ","v","u","l","n","e","r","a","b","i","l","i","t","i","e","s">>

s_sql_injection ==
    <<"s","q","l"," ","i","n","j","e","c","t","i","o","n">>

s_credential ==
    <<"c","r","e","d","e","n","t","i","a","l">>

s_password ==
    <<"p","a","s","s","w","o","r","d">>

s_xss ==
    <<"x","s","s">>

s_path_traversal ==
    <<"p","a","t","h"," ","t","r","a","v","e","r","s","a","l">>

s_fence ==
    <<BT,BT,BT>>

s_fence_python ==
    <<BT,BT,BT,"p","y","t","h","o","n">>

s_fixed_code ==
    <<"F","I","X","E","D"," ","C","O","D","E",":">>

s_explanation ==
    <<"E","X","P","L","A","N","A","T","I","O","N",":">>

s_additional_notes ==
    <<"A","D","D","I","T","I","O","N","A","L"," ","N","O","T","E","S",":">>

s_rule ==
    <<"-","-","-">>

s_ellipsis ==
    <<".",".",".">>

s_def_temp_func ==
    <<"d","e","f"," ","t","e","m","p","_","f","u","n","c","(",")",":","\n"," "," "," "," ">>

s_indent ==
    <<" "," "," "," ">>

s_github_com ==
    <<"g","i","t","h","u","b",".","c","o","m","/">>

s_pull ==
    <<"/","p","u","l","l","/">>

\* --------------------------------------------- reasoning-service responses

risk_high ==
    <<"H","I","G","H"," ","R","I","S","K",":"," ","d","a","t","a","b","a","s","e"," ","c","o","d",
      "e">>

risk_critical ==
    <<"C","r","i","t","i","c","a","l"," ","a","u","t","h"," ","c","h","a","n","g","e">>

risk_medium ==
    <<"M","e","d","i","u","m"," ","r","i","s","k",":"," ","c","o","n","f","i","g"," ","c","h","a",
      "n","g","e">>

risk_low ==
    <<"L","O","W"," ","R","I","S","K",":"," ","d","o","c","s"," ","o","n","l","y">>

risk_level_only ==
    <<"R","I","S","K"," ","L","E","V","E","L",":"," ","H","i","g","h">>

RiskResponses ==
    {risk_high, risk_critical, risk_medium, risk_low, risk_level_only}

analysis_clean ==
    <<"N","o"," ","s","e","c","u","r","i","t","y"," ","i","s","s","u","e","s"," ","d","e","t","e",
      "c","t","e","d",".">>

analysis_xss ==
    <<"T","y","p","e",":"," ","X","S","S","\n","S","e","v","e","r","i","t","y",":"," ","H","i","g",
      "h">>

analysis_sql ==
    <<"T","y","p","e",":"," ","S","Q","L"," ","I","n","j","e","c","t","i","o","n","\n","S","e","v",
      "e","r","i","t","y",":"," ","C","r","i","t","i","c","a","l">>

AnalysisResponses ==
    {analysis_clean, analysis_xss, analysis_sql}

fix_fenced ==
    <<"F","I","X","E","D"," ","C","O","D","E",":","\n",BT,BT,BT,"p","y","t","h","o","n","\n","v",
      "a","l","u","e"," ","="," ","l","o","a","d","(",")","\n",BT,BT,BT,"\n","E","X","P","L",
      "A","N","A","T","I","O","N",":"," ","R","e","a","d","s"," ","t","h","e"," ","v","a","l",
      "u","e"," ","s","a","f","e","l","y",".">>

fix_unusable ==
    <<"?","?","?">>

FixResponses ==
    {fix_fenced, fix_unusable}

\* severity_map.get(vuln_type, "medium")
get_severity(vuln_type) ==
    CASE vuln_type = "sql_injection" -> "critical"
      [] vuln_type = "hardcoded_credentials" -> "high"
      [] vuln_type = "xss" -> "high"
      [] vuln_type = "path_traversal" -> "high"
      [] OTHER -> "medium"

\* the 50 of vuln.get('code_snippet', '')[:50]
SnippetKeyLen ==
    50

\* DedupKey without the [:50]: the whole snippet is compared
DedupKeyWholeSnippet(vuln) ==
    <<vuln.type, IF "code_snippet" \in DOMAIN vuln THEN vuln.code_snippet ELSE <<>>>>

\* the key _deduplicate compares
DedupKey(vuln) ==
    <<vuln.type, Take(IF "code_snippet" \in DOMAIN vuln THEN vuln.code_snippet ELSE <<>>,
                      SnippetKeyLen)>>

RECURSIVE DedupFrom(_, _, _, _)
DedupFrom(vulnerabilities, i, seen, unique) ==
    IF i > Len(vulnerabilities) THEN unique
    ELSE LET key == DedupKey(vulnerabilities[i])
         IN  IF key \notin seen
             THEN DedupFrom(vulnerabilities, i + 1, seen \cup {key},
                            Append(unique, vulnerabilities[i]))
             ELSE DedupFrom(vulnerabilities, i + 1, seen, unique)

\* SecurityScanner._deduplicate (found is the value of the list handed over)
deduplicate(vulnerabilities) ==
    CHOOSE unique \in {DedupFrom(found, 1, {}, <<>>) : found \in {vulnerabilities}} : TRUE

\* the record quick_scan appends for a matching line
PatternFinding(vuln_type, description, line_num, line) ==
    [type |-> vuln_type,
     severity |-> get_severity(vuln_type),
     line |-> line_num,
     code_snippet |-> Strip(line),
     description |-> description,
     detection_method |-> "pattern_matching"]

RECURSIVE ScanLines(_, _, _, _)
\* for line_num, line in enumerate(lines, 1), from line_num on
ScanLines(vuln_type, pd, lines, line_num) ==
    IF line_num > Len(lines) THEN <<>>
    ELSE (IF re_search(pd.pattern, lines[line_num], TRUE) # <<>>
          THEN <<PatternFinding(vuln_type, pd.description, line_num, lines[line_num])>>
          ELSE <<>>)
         \o ScanLines(vuln_type, pd, lines, line_num + 1)

RECURSIVE ScanPatterns(_, _, _, _)
\* for pattern, description in patterns, from the k-th on
ScanPatterns(vuln_type, pds, lines, k) ==
    IF k > Len(pds) THEN <<>>
    ELSE ScanLines(vuln_type, pds[k], lines, 1) \o ScanPatterns(vuln_type, pds, lines, k + 1)

RECURSIVE ScanTypes(_, _)
\* for vuln_type, patterns in self.patterns.items(), from the t-th on
ScanTypes(lines, t) ==
    IF t > Len(patterns) THEN <<>>
    ELSE ScanPatterns(patterns[t].vuln_type, patterns[t].patterns, lines, 1)
         \o ScanTypes(lines, t + 1)

\* every match, before deduplication (lines = code.split('\n') is computed
\* once)
AllMatches(code) ==
    CHOOSE found \in {ScanTypes(lines, 1) : lines \in {Split(code, "\n")}} : TRUE

RECURSIVE FindingsOf(_)
\* the findings of a list of results, in order
FindingsOf(results) ==
    IF Len(results) = 0 THEN <<>> ELSE results[1] \o FindingsOf(Tail(results))

\* quick_scan with its list kept on the scanner instead of starting empty at
\* each call: the findings of the earlier calls are still in it
quick_scan_accumulating(code) ==
    deduplicate((IF fn_out[1] = "scans" THEN FindingsOf(fn_out[2]) ELSE <<>>)
                \o AllMatches(code))

\* SecurityScanner.quick_scan
quick_scan(code) ==
    deduplicate(AllMatches(code))

\* ------------------------------------------------ source lines the scans are run on

ln_docs ==
    <<"#"," ","d","o","c","s"," ","o","n","l","y">>

ln_password ==
    <<"p","a","s","s","w","o","r","d"," ","="," ","\"","h","u","n","t","e","r","2","\"">>

ln_password_indented ==
    <<" "," "," "," ","p","a","s","s","w","o","r","d"," ","="," ","\"","h","u","n","t","e","r","2",
      "\""," "," ">>

ln_password_upper ==
    <<"P","A","S","S","W","O","R","D"," ","="," ","'","h","u","n","t","e","r","2","'">>

ln_two_secrets ==
    <<"p","a","s","s","w","o","r","d"," ","="," ","\"","a","\"",";"," ","s","e","c","r","e","t"," ",
      "="," ","\"","b","\"">>

ln_query_concat ==
    <<"q","u","e","r","y"," ","="," ","\"","S","E","L","E","C","T"," ","*"," ","F","R","O","M"," ",
      "u","s","e","r","s"," ","W","H","E","R","E"," ","u","s","e","r","n","a","m","e","=","'",
      "\""," ","+"," ","u","s","e","r","n","a","m","e"," ","+"," ","\"","'","\"">>

ln_execute_long_a ==
    <<"d","b",".","e","x","e","c","u","t","e","(","\"","S","E","L","E","C","T"," ","*"," ","F","R",
      "O","M"," ","u","s","e","r","s"," ","W","H","E","R","E"," ","o","r","g"," ","="," ","'",
      "a","c","m","e","'"," ","A","N","D"," ","i","d"," ","="," ","\""," ","+"," ","u","i","d",
      ")">>

ln_execute_long_b ==
    <<"d","b",".","e","x","e","c","u","t","e","(","\"","S","E","L","E","C","T"," ","*"," ","F","R",
      "O","M"," ","u","s","e","r","s"," ","W","H","E","R","E"," ","o","r","g"," ","="," ","'",
      "a","c","m","e","'"," ","A","N","D"," ","r","o","l","e"," ","="," ","\""," ","+"," ","r",
      ")">>

ln_eval_password ==
    <<"e","v","a","l","(","s","r","c",")",";"," ","p","a","s","s","w","o","r","d"," ","="," ","\"",
      "a","\"">>

ScanLineCatalogue ==
    {ln_docs, ln_password, ln_password_indented, ln_password_upper, ln_two_secrets, ln_query_concat, ln_execute_long_a, ln_execute_long_b, ln_eval_password}

\* ------------------------------------------------------------- GitHubClient

\* GitHubClient._mock_diff
mock_diff ==
    <<"-","-","-"," ","a","/","a","p","p",".","p","y","\n","+","+","+"," ","b","/","a","p","p",".",
      "p","y","\n","@","@"," ","-","1","0",",","7"," ","+","1","0",",","7"," ","@","@"," ","d",
      "e","f"," ","l","o","g","i","n","(","u","s","e","r","n","a","m","e",","," ","p","a","s",
      "s","w","o","r","d",")",":","\n","-"," "," "," "," ","q","u","e","r","y"," ","="," ","\"",
      "S","E","L","E","C","T"," ","*"," ","F","R","O","M"," ","u","s","e","r","s"," ","W","H",
      "E","R","E"," ","u","s","e","r","n","a","m","e","=","'","\""," ","+"," ","u","s","e","r",
      "n","a","m","e"," ","+"," ","\"","'","\"","\n","+"," "," "," "," ","q","u","e","r","y",
      " ","="," ","f","\"","S","E","L","E","C","T"," ","*"," ","F","R","O","M"," ","u","s","e",
      "r","s"," ","W","H","E","R","E"," ","u","s","e","r","n","a","m","e","=","'","{","u","s",
      "e","r","n","a","m","e","}","'"," ","A","N","D"," ","p","a","s","s","w","o","r","d","=",
      "'","{","p","a","s","s","w","o","r","d","}","'","\"","\n"," "," "," "," "," ","u","s","e",
      "r"," ","="," ","d","b",".","e","x","e","c","u","t","e","(","q","u","e","r","y",")","\n">>

\* GitHubClient._mock_pr_data
mock_pr_data ==
    [number |-> 1,
     title |-> "Add user authentication",
     body |-> "Implementing login functionality",
     state |-> "open",
     author |-> "test-user",
     changed_files |-> 3,
     additions |-> 150,
     deletions |-> 20,
     commits |-> 2,
     files |-> <<<<"a","p","p",".","p","y">>,
                 <<"d","b",".","p","y">>,
                 <<"c","o","n","f","i","g",".","p","y">>>>]

\* PR references handed to analyze_pr
url_pull ==
    <<"h","t","t","p","s",":","/","/","g","i","t","h","u","b",".","c","o","m","/","a","c","m","e",
      "/","s","h","o","p","/","p","u","l","l","/","7">>

url_issue ==
    <<"h","t","t","p","s",":","/","/","g","i","t","h","u","b",".","c","o","m","/","a","c","m","e",
      "/","s","h","o","p","/","i","s","s","u","e","s","/","7">>

url_garbage ==
    <<"n","o","t"," ","a"," ","p","u","l","l"," ","r","e","q","u","e","s","t">>

PrUrls ==
    {url_pull, url_issue, url_garbage}

\* pull requests GitHub may hold behind the reference, as PyGithub shows
\* them (has_patch is FALSE when file.patch is None: GitHub sends none for a binary file)
pr_docs ==
    [number |-> 7,
     title |-> "Update README",
     body |-> "",
     state |-> "open",
     author |-> "dev",
     additions |-> 1,
     deletions |-> 1,
     commits |-> 1,
     files |->
         <<[filename |->
              <<"R","E","A","D","M","E",".","m","d">>,
            has_patch |-> TRUE,
            patch |->
              <<"@","@"," ","-","1"," ","+","1"," ","@","@","\n","-","o","l","d"," ","d","o","c","s","\n","+",
                "n","e","w"," ","d","o","c","s">>]>>]

pr_login ==
    [number |-> 7,
     title |-> "Add login",
     body |-> "",
     state |-> "open",
     author |-> "dev",
     additions |-> 2,
     deletions |-> 0,
     commits |-> 1,
     files |->
         <<[filename |->
              <<"l","o","g","i","n",".","p","y">>,
            has_patch |-> TRUE,
            patch |->
              <<"@","@"," ","-","1"," ","+","1",",","2"," ","@","@","\n","+","p","a","s","s","w","o","r","d",
                " ","="," ","\"","h","u","n","t","e","r","2","\"","\n","+","d","b",".","e","x",
                "e","c","u","t","e","(","\"","S","E","L","E","C","T"," ","\""," ","+"," ","u",
                "i","d",")">>]>>]

pr_widget ==
    [number |-> 7,
     title |-> "Add HTML widget",
     body |-> "",
     state |-> "open",
     author |-> "dev",
     additions |-> 1,
     deletions |-> 1,
     commits |-> 1,
     files |->
         <<[filename |->
              <<"s","r","c","/","c","o","m","p","o","n","e","n","t","s","/","d","a","n","g","e","r","o","u",
                "s","l","y","S","e","t","I","n","n","e","r","H","T","M","L","W","r","a","p","p",
                "e","r",".","j","s","x">>,
            has_patch |-> TRUE,
            patch |->
              <<"@","@"," ","-","1"," ","+","1"," ","@","@","\n","-","a","\n","+","b">>]>>]

pr_logo ==
    [number |-> 7,
     title |-> "Add logo",
     body |-> "",
     state |-> "open",
     author |-> "dev",
     additions |-> 0,
     deletions |-> 0,
     commits |-> 1,
     files |->
         <<[filename |->
              <<"l","o","g","o",".","p","n","g">>,
            has_patch |-> FALSE,
            patch |->
              <<>>]>>]

LivePRs ==
    {pr_docs, pr_login, pr_widget, pr_logo}

\* r'github\.com/([^/]+)/([^/]+)/pull/(\d+)'
pat_pr_url ==
    Lit(s_github_com) \o <<PlusNot({"/"})>> \o Lit(<<"/">>) \o <<PlusNot({"/"})>>
    \o Lit(s_pull) \o <<AtLeast(Digits, 1)>>

DigitValue ==
    ("0" :> 0) @@ ("1" :> 1) @@ ("2" :> 2) @@ ("3" :> 3) @@ ("4" :> 4) @@
    ("5" :> 5) @@ ("6" :> 6) @@ ("7" :> 7) @@ ("8" :> 8) @@ ("9" :> 9)

RECURSIVE ParseInt(_)
\* int(s) for a string of digits
ParseInt(s) ==
    IF Len(s) = 0 THEN 0
    ELSE 10 * ParseInt(SubSeq(s, 1, Len(s) - 1)) + DigitValue[s[Len(s)]]

\* GitHubClient._parse_pr_url: ok is FALSE where the code raises ValueError
parse_pr_url(url) ==
    LET g == Len(s_github_com)
        p == Len(s_pull)
    IN  CHOOSE parsed \in
            {IF m = <<>> THEN [ok |-> FALSE]
             ELSE [ok |-> TRUE,
                   owner |-> SubSeq(url, m[g + 1], m[g + 2] - 1),
                   repo |-> SubSeq(url, m[g + 3], m[g + 4] - 1),
                   number |-> ParseInt(SubSeq(url, m[g + 4 + p], m[g + 5 + p] - 1))] :
                 m \in {re_search(pat_pr_url, url, FALSE)}} : TRUE

\* the dict get_pr_data builds from the PyGithub pull request
live_pr_data(pr) ==
    [number |-> pr.number,
     title |-> pr.title,
     body |-> pr.body,
     state |-> pr.state,
     author |-> pr.author,
     changed_files |-> Len(pr.files),
     additions |-> pr.additions,
     deletions |-> pr.deletions,
     commits |-> pr.commits,
     files |-> [i \in 1..Len(pr.files) |-> pr.files[i].filename]]

RECURSIVE FileDiffParts(_)
\* full_diff after the loop over pr.get_files()
FileDiffParts(files) ==
    IF Len(files) = 0 THEN <<>>
    ELSE <<s_diff_old \o files[1].filename,
           s_diff_new \o files[1].filename,
           IF files[1].has_patch THEN files[1].patch ELSE <<>>,
           s_newline>>
         \o FileDiffParts(Tail(files))

\* the text get_pr_diff returns for the PyGithub pull request
live_pr_diff(pr) ==
    Join(FileDiffParts(pr.files), s_newline)

\* format_review_comment without the early return for an empty list
format_review_comment_without_early_return(vulns, fixes, trace) ==
    [summary |-> "Found potential security issues",
     vulnerabilities |-> vulns, suggested_fixes |-> fixes, reasoning_trace |-> trace]

\* GitHubClient._format_review_comment: the parts of the comment that depend
\* on the run (header, footer and markup left out)
format_review_comment(vulns, fixes, trace) ==
    IF Len(vulns) = 0
    THEN [summary |-> "No security vulnerabilities detected",
          vulnerabilities |-> <<>>, suggested_fixes |-> <<>>, reasoning_trace |-> <<>>]
    ELSE [summary |-> "Found potential security issues",
          vulnerabilities |-> vulns, suggested_fixes |-> fixes, reasoning_trace |-> trace]

\* ------------------------------------------------------- Python's ast.parse
\* ast.parse is library code: its verdict is tabulated for the texts the
\* model hands to it (every diff, every extracted fix and its wrapping);
\* a text outside the table raises SyntaxError.

py_value_load ==
    <<"v","a","l","u","e"," ","="," ","l","o","a","d","(",")">>

\* "def temp_func():\n    " + fixed_code.replace('\n', '\n    ')
wrap_in_function(fixed_code) ==
    s_def_temp_func \o Join(Split(fixed_code, "\n"), s_newline \o s_indent)

\* a call the fixed code replaces
py_old_call ==
    <<"o","l","d","(",")">>

\* an assignment left open, which ast.parse rejects
py_unclosed ==
    <<"x"," ","="," ","(">>

\* a line of two blanks
py_blank ==
    <<" "," ">>

\* lines ast.parse accepts in any number and order: a statement, an empty
\* line and a blank one
AcceptedLines ==
    {py_value_load, <<>>, py_blank}

\* the most lines of a fenced block
MaxBlockLines ==
    2

\* the texts of up to n lines of AcceptedLines, the empty text included
AcceptedTexts(n) ==
    {Join(ls, s_newline) : ls \in UNION {[1..k -> AcceptedLines] : k \in 0..n}}

\* the call of py_old_call indented as inside a block
py_indented_call ==
    <<" "," "," "," ">> \o py_old_call

\* the first line of a function definition
py_def_line ==
    <<"d","e","f"," ","t","e","m","p","_","f","u","n","c","(",")",":">>

\* lines that make up the body of a function when each of them is indented
\* by four more blanks: the indented call, an empty line, a blank one
IndentedLines ==
    {py_indented_call, <<>>, py_blank}

\* the function definitions ast.parse accepts whose body is up to n lines of
\* IndentedLines, the call among them, each four blanks deeper
AcceptedDefs(n) ==
    {Join(<<py_def_line>> \o [i \in DOMAIN ls |-> <<" "," "," "," ">> \o ls[i]], s_newline) :
         ls \in {l \in UNION {[1..k -> IndentedLines] : k \in 1..n} :
                     \E i \in DOMAIN l : l[i] = py_indented_call}}

\* the letters in order
Alphabet ==
    <<"a","b","c","d","e","f","g","h","i","j","k","l","m","n","o","p","q","r","s","t","u","v",
      "w","x","y","z">>

\* the i-th letter, starting over after z
LetterAt(i) ==
    Alphabet[((i - 1) % Len(Alphabet)) + 1]

\* ".raw()"
s_raw_call ==
    <<".","r","a","w","(",")">>

\* a statement that calls the method raw of a one-letter name
py_raw_call(c) ==
    <<c>> \o s_raw_call

\* n statements, the i-th calling raw on the i-th letter
RawCallLines(n) ==
    [i \in 1..n |-> py_raw_call(LetterAt(i))]

\* the most statements of a text of calls
MaxCallLines ==
    12

\* the texts of 1 to n calls of raw, one to a line, which ast.parse accepts
AcceptedCalls(n) ==
    {Join(RawCallLines(k), s_newline) : k \in 1..n}

PythonAccepts ==
    {live_pr_diff(pr_logo), py_value_load, wrap_in_function(py_value_load), py_old_call}
    \cup AcceptedTexts(MaxBlockLines) \cup AcceptedDefs(MaxBlockLines)
    \cup AcceptedCalls(MaxCallLines)

\* TRUE where ast.parse(code) returns, FALSE where it raises SyntaxError
ast_parse_ok(code) ==
    code \in PythonAccepts

\* the Call nodes of one line of an accepted text, each with the method name
\* of node.func (<<>> when it has no attr) and its source segment: a call of
\* raw on a name, the call of load() or the call of old()
CallNodesOf(line) ==
    IF Len(line) = 1 + Len(s_raw_call) /\ line[1] \in LowerLetters
                                      /\ Drop(line, 1) = s_raw_call
    THEN <<[kind |-> "Call", attr |-> <<"r","a","w">>, segment |-> line]>>
    ELSE IF Strip(line) = py_value_load
    THEN <<[kind |-> "Call", attr |-> <<>>, segment |-> Drop(py_value_load, 8)]>>
    ELSE IF Strip(line) = py_old_call
    THEN <<[kind |-> "Call", attr |-> <<>>, segment |-> py_old_call]>>
    ELSE <<>>

RECURSIVE WalkFrom(_, _)
WalkFrom(lines, i) ==
    IF i > Len(lines) THEN <<>>
    ELSE CallNodesOf(lines[i]) \o WalkFrom(lines, i + 1)

\* the Call and JoinedStr nodes of ast.walk(tree), in walk order: the calls
\* of the statements from the first line to the last (the walk is breadth
\* first and every call of an accepted text is at one depth); no accepted
\* text holds a JoinedStr
ast_walk(code) ==
    CHOOSE nodes \in {WalkFrom(lines, 1) : lines \in {Split(code, "\n")}} : TRUE

\* ['execute', 'raw', 'query', 'eval']
SuspiciousMethods ==
    {<<"e","x","e","c","u","t","e">>, <<"r","a","w">>, <<"q","u","e","r","y">>,
     <<"e","v","a","l">>}

\* ['select', 'insert', 'update', 'delete']
SqlKeywords ==
    {<<"s","e","l","e","c","t">>, <<"i","n","s","e","r","t">>, <<"u","p","d","a","t","e">>,
     <<"d","e","l","e","t","e">>}

\* the 10 of suspicious[:10]
MaxSuspicious ==
    10

\* what one node of the walk appends to suspicious
SuspiciousOf(node) ==
    (IF node.kind = "Call" /\ node.attr \in SuspiciousMethods /\ node.segment # <<>>
     THEN <<node.segment>> ELSE <<>>)
    \o
    (IF /\ node.kind = "JoinedStr"
        /\ node.segment # <<>>
        /\ \E kw \in SqlKeywords : Contains(Lower(node.segment), kw)
     THEN <<node.segment>> ELSE <<>>)

RECURSIVE SuspiciousFrom(_, _)
SuspiciousFrom(nodes, i) ==
    IF i > Len(nodes) THEN <<>>
    ELSE SuspiciousOf(nodes[i]) \o SuspiciousFrom(nodes, i + 1)

\* SecurityScanner._find_suspicious_nodes
find_suspicious_nodes(code) ==
    Take(SuspiciousFrom(ast_walk(code), 1), MaxSuspicious)

\* the 50 of max_lines=50
ChunkLines ==
    50

\* the 3 of chunks[:3]
MaxChunks ==
    3

RECURSIVE ChunksFrom(_, _, _)
\* for i in range(0, len(lines), max_lines), lines counted from 1 here
ChunksFrom(lines, i, max_lines) ==
    IF i > Len(lines) THEN <<>>
    ELSE <<Join(SubSeq(lines, i, Min(i + max_lines - 1, Len(lines))), s_newline)>>
         \o ChunksFrom(lines, i + max_lines, max_lines)

\* SecurityScanner._chunk_code (lines = code.split('\n') is computed once)
chunk_code(code, max_lines) ==
    CHOOSE chunks \in {ChunksFrom(lines, 1, max_lines) : lines \in {Split(code, "\n")}} : TRUE

\* deep_candidates with every candidate and every chunk kept, however many
deep_candidates_uncapped(code) ==
    IF ast_parse_ok(code) THEN SuspiciousFrom(ast_walk(code), 1)
    ELSE chunk_code(code, ChunkLines)

\* the snippets deep_analysis sends to the reasoning service, in order
deep_candidates(code) ==
    IF ast_parse_ok(code) THEN find_suspicious_nodes(code)
    ELSE Take(chunk_code(code, ChunkLines), MaxChunks)

\* the 300 of analysis[:300]
DescriptionLen ==
    300

\* SecurityScanner._analyze_with_llm after the call returned analysis:
\* <<>> for None, else the one finding
analyze_with_llm(code_snippet, analysis) ==
    LET low == Lower(analysis)
    IN  IF Contains(low, s_no_security_issues) \/ Contains(low, s_no_vulnerabilities)
        THEN <<>>
        ELSE <<[type |-> IF Contains(low, s_sql_injection) THEN "sql_injection"
                         ELSE IF Contains(low, s_credential) \/ Contains(low, s_password)
                              THEN "hardcoded_credentials"
                         ELSE IF Contains(low, s_xss) THEN "xss"
                         ELSE IF Contains(low, s_path_traversal) THEN "path_traversal"
                         ELSE "unknown",
                 severity |-> IF Contains(low, s_critical) THEN "critical"
                              ELSE IF Contains(low, s_high) THEN "high"
                              ELSE IF Contains(low, s_low) THEN "low"
                              ELSE "medium",
                 code_snippet |-> code_snippet,
                 description |-> Take(analysis, DescriptionLen),
                 full_analysis |-> analysis,
                 detection_method |-> "llm_analysis"]>>

RECURSIVE AnalyzeFrom(_, _, _)
AnalyzeFrom(candidates, analyses, i) ==
    IF i > Len(candidates) THEN <<>>
    ELSE analyze_with_llm(candidates[i], analyses[i])
         \o AnalyzeFrom(candidates, analyses, i + 1)

\* SecurityScanner.deep_analysis when the i-th call returns analyses[i]
scanner_deep_analysis(code, analyses) ==
    AnalyzeFrom(deep_candidates(code), analyses, 1)

\* -------------------------------------------------------------- CodeGenerator

\* r'```python\n(.*?)\n```' with re.DOTALL
pat_block_python ==
    Lit(s_fence_python \o s_newline) \o <<LazyAny>> \o Lit(s_newline \o s_fence)

\* r'```\n(.*?)\n```' with re.DOTALL
pat_block_plain ==
    Lit(s_fence \o s_newline) \o <<LazyAny>> \o Lit(s_newline \o s_fence)

\* r'FIXED CODE:\s*```(?:python)?\n(.*?)\n```' with the optional group taken
pat_block_label_python ==
    Lit(s_fixed_code) \o <<Star(Whitespace)>> \o Lit(s_fence_python \o s_newline)
    \o <<LazyAny>> \o Lit(s_newline \o s_fence)

\* the same with the optional group skipped
pat_block_label_plain ==
    Lit(s_fixed_code) \o <<Star(Whitespace)>> \o Lit(s_fence \o s_newline)
    \o <<LazyAny>> \o Lit(s_newline \o s_fence)

\* the index of the (.*?) atom of a pattern
GroupAtom(pat) ==
    CHOOSE i \in 1..Len(pat) : pat[i].lazy

\* match.group(1) of a match m of pat in s
Group1(pat, s, m) ==
    SubSeq(s, m[GroupAtom(pat)], m[GroupAtom(pat) + 1] - 1)

\* re.search with the optional (?:python)?: at each start the regex tries the
\* group first, so the leftmost match wins and on a tie the one with the group
SearchLabelBlock(s) ==
    LET a == re_search(pat_block_label_python, s, FALSE)
        b == re_search(pat_block_label_plain, s, FALSE)
    IN  IF a = <<>> /\ b = <<>> THEN <<>>
        ELSE IF b = <<>> \/ (a # <<>> /\ a[1] <= b[1])
             THEN <<Group1(pat_block_label_python, s, a)>>
             ELSE <<Group1(pat_block_label_plain, s, b)>>

\* the loop over patterns: <<>> when none matches, else <<group(1).strip()>>
SearchCodeBlocks(s) ==
    LET p == re_search(pat_block_python, s, FALSE)
        q == re_search(pat_block_plain, s, FALSE)
        l == SearchLabelBlock(s)
    IN  IF p # <<>> THEN <<Strip(Group1(pat_block_python, s, p))>>
        ELSE IF q # <<>> THEN <<Strip(Group1(pat_block_plain, s, q))>>
        ELSE IF l # <<>> THEN <<Strip(l[1])>>
        ELSE <<>>

RECURSIVE CaptureLines(_, _, _, _)
\* the loop collecting the lines after "FIXED CODE:" up to the next section
CaptureLines(lines, i, capturing, code_lines) ==
    IF i > Len(lines) THEN code_lines
    ELSE IF Contains(lines[i], s_fixed_code)
         THEN CaptureLines(lines, i + 1, TRUE, code_lines)
    ELSE IF capturing
         THEN IF Contains(lines[i], s_explanation) \/ Contains(lines[i], s_additional_notes)
              THEN code_lines
              ELSE CaptureLines(lines, i + 1, TRUE, Append(code_lines, lines[i]))
    ELSE CaptureLines(lines, i + 1, FALSE, code_lines)

\* the 10 of split('\n')[:10]
FallbackLines ==
    10

\* CodeGenerator._extract_code_block
extract_code_block(llm_response) ==
    LET found == SearchCodeBlocks(llm_response)
    IN  IF found # <<>> THEN found[1]
        ELSE IF Contains(llm_response, s_fixed_code)
             THEN Strip(Join(CaptureLines(Split(llm_response, "\n"), 1, FALSE, <<>>), s_newline))
        ELSE Join(Take(Split(llm_response, "\n"), FallbackLines), s_newline)

\* the least i with sub at s[i], 0 when sub is not in s
FirstIndex(s, sub) ==
    IF Contains(s, sub)
    THEN CHOOSE i \in 1..Len(s) :
             OccursAt(sub, s, i) /\ \A j \in 1..(i - 1) : ~OccursAt(sub, s, j)
    ELSE 0

\* s.split(sub)[0]
BeforeFirst(s, sub) ==
    IF Contains(s, sub) THEN SubSeq(s, 1, FirstIndex(s, sub) - 1) ELSE s

\* s.split(sub)[1] where sub is in s
SecondPart(s, sub) ==
    BeforeFirst(Drop(s, FirstIndex(s, sub) + Len(sub) - 1), sub)

\* the 200 of llm_response[:200]
ExplanationLen ==
    200

\* CodeGenerator._extract_explanation
extract_explanation(llm_response) ==
    IF Contains(llm_response, s_explanation)
    THEN Strip(BeforeFirst(BeforeFirst(BeforeFirst(SecondPart(llm_response, s_explanation),
                                                   s_additional_notes),
                                       s_fence),
                           s_rule))
    ELSE Take(llm_response, ExplanationLen) \o s_ellipsis

\* f"{vuln_type}_fix" for the types a finding can have
FixType(vuln_type) ==
    CASE vuln_type = "sql_injection" -> "sql_injection_fix"
      [] vuln_type = "hardcoded_credentials" -> "hardcoded_credentials_fix"
      [] vuln_type = "xss" -> "xss_fix"
      [] vuln_type = "path_traversal" -> "path_traversal_fix"
      [] vuln_type = "unknown" -> "unknown_fix"

\* CodeGenerator.generate_fix after the call returned fix_content
generate_fix(vulnerability, original_code, fix_content) ==
    [type |-> FixType(vulnerability.type),
     original_code |-> original_code,
     fixed_code |-> extract_code_block(fix_content),
     explanation |-> extract_explanation(fix_content),
     full_response |-> fix_content,
     vulnerability_id |-> vulnerability.type,
     file_path |-> IF "file_path" \in DOMAIN vulnerability THEN vulnerability.file_path
                   ELSE <<>>,
     line_number |-> IF "line" \in DOMAIN vulnerability THEN vulnerability.line ELSE 0]

\* the 10 of len(fixed_code) > 10
MinUnparsedLen ==
    10

\* validate_fix without the len(fixed_code) > 10 leniency: what does not
\* parse is rejected
validate_fix_without_leniency(fix) ==
    LET fixed_code == IF "fixed_code" \in DOMAIN fix THEN fix.fixed_code ELSE <<>>
    IN  IF Len(fixed_code) = 0 THEN FALSE
        ELSE IF ast_parse_ok(fixed_code) THEN TRUE
        ELSE ast_parse_ok(wrap_in_function(fixed_code))

\* CodeGenerator.validate_fix
validate_fix(fix) ==
    LET fixed_code == IF "fixed_code" \in DOMAIN fix THEN fix.fixed_code ELSE <<>>
    IN  IF Len(fixed_code) = 0 THEN FALSE
        ELSE IF ast_parse_ok(fixed_code) THEN TRUE
        ELSE IF ast_parse_ok(wrap_in_function(fixed_code)) THEN TRUE
        ELSE Len(fixed_code) > MinUnparsedLen

\* ------------------------------------------------- SecurityGuardianAgent state

VARIABLES
    pc,                 \* the graph node about to run, "END", "done" or "failed"
    token,              \* GitHubClient.gh is set (a token was configured)
    live_pr,            \* the pull request GitHub holds for the reference
    pr_url,             \* AgentState, as initialised by analyze_pr
    pr_data,
    diff_content,
    risk_level,
    analysis_strategy,
    vulnerabilities,
    suggested_fixes,
    reasoning_trace,
    result,             \* the dict analyze_pr returns
    error,              \* the exception that left analyze_pr
    stage_log,          \* the nodes entered, in order
    llm_calls,          \* the llm.invoke requests issued, in order
    api_calls,          \* the client methods that reached the GitHub API
    posted,             \* the reviews created on GitHub
    sources,            \* where pr_data and diff_content came from
    review_posted,      \* what post_review returned
    llm_replies,        \* the response.content of the requests answered, in order
    other               \* the state of a second analyze_pr call in progress

vars ==
    <<pc, token, live_pr, pr_url, pr_data, diff_content, risk_level, analysis_strategy,
      vulnerabilities, suggested_fixes, reasoning_trace, result, error, stage_log,
      llm_calls, api_calls, posted, sources, review_posted, llm_replies, other, fn_in,
      fn_out>>

\* the AgentState fields
agent_state ==
    <<pr_url, pr_data, diff_content, risk_level, analysis_strategy, vulnerabilities,
      suggested_fixes, reasoning_trace>>

\* the world outside the run and the harness for single functions
outside ==
    <<token, live_pr, other, fn_in, fn_out>>

Stages ==
    {"fetch_pr", "assess_risk", "quick_scan", "deep_analysis", "generate_fixes",
     "validate_fixes", "post_review"}

\* one line of reasoning_trace: what the formatted string is built from
\* (the timestamp of the "Fetching" line is left out)
Entry(kind, tag, n, m, text) ==
    [kind |-> kind, tag |-> tag, n |-> n, m |-> m, text |-> text]

\* ------------------------------------------------------------------ the graph

\* set_entry_point("fetch_pr")
entry_point ==
    "fetch_pr"

\* edge with generate_fixes wired to post_review, validate_fixes left out
edge_skips_validation(node) ==
    CASE node = "fetch_pr" -> "assess_risk"
      [] node = "quick_scan" -> "generate_fixes"
      [] node = "deep_analysis" -> "generate_fixes"
      [] node = "generate_fixes" -> "post_review"
      [] node = "validate_fixes" -> "post_review"
      [] node = "post_review" -> "END"

\* edge with validate_fixes wired back to generate_fixes, a retry loop
edge_retrying_generation(node) ==
    CASE node = "fetch_pr" -> "assess_risk"
      [] node = "quick_scan" -> "generate_fixes"
      [] node = "deep_analysis" -> "generate_fixes"
      [] node = "generate_fixes" -> "validate_fixes"
      [] node = "validate_fixes" -> "generate_fixes"
      [] node = "post_review" -> "END"

\* the add_edge calls of _build_graph: the node that follows node
edge(node) ==
    CASE node = "fetch_pr" -> "assess_risk"
      [] node = "quick_scan" -> "generate_fixes"
      [] node = "deep_analysis" -> "generate_fixes"
      [] node = "generate_fixes" -> "validate_fixes"
      [] node = "validate_fixes" -> "post_review"
      [] node = "post_review" -> "END"

\* the state analyze_pr builds before graph.invoke
InitRun ==
    /\ pc = entry_point
    /\ token \in BOOLEAN
    /\ live_pr \in LivePRs
    /\ pr_url \in PrUrls
    /\ pr_data = <<>>
    /\ diff_content = <<>>
    /\ risk_level = ""
    /\ analysis_strategy = ""
    /\ vulnerabilities = <<>>
    /\ suggested_fixes = <<>>
    /\ reasoning_trace = <<>>
    /\ result = <<>>
    /\ error = "none"
    /\ stage_log = <<>>
    /\ llm_calls = <<>>
    /\ api_calls = <<>>
    /\ posted = <<>>
    /\ sources = [pr_data |-> "none", diff |-> "none"]
    /\ review_posted = FALSE
    /\ llm_replies = <<>>

Init ==
    /\ InitRun
    /\ other = <<>>
    /\ fn_in = <<>>
    /\ fn_out = <<"idle">>

\* Raise with the exception caught: the run ends as if the graph had finished
RaiseSwallowed(stage, exception, requests) ==
    /\ pc' = "END"
    /\ error' = exception
    /\ stage_log' = Append(stage_log, stage)
    /\ llm_calls' = llm_calls \o requests
    /\ UNCHANGED <<agent_state, result, api_calls, posted, sources, review_posted,
                   llm_replies, outside>>

\* an exception leaves the node and analyze_pr: the state is dropped
Raise(stage, exception, requests) ==
    /\ pc' = "failed"
    /\ error' = exception
    /\ stage_log' = Append(stage_log, stage)
    /\ llm_calls' = llm_calls \o requests
    /\ UNCHANGED <<agent_state, result, api_calls, posted, sources, review_posted,
                   llm_replies, outside>>

\* the requests a loop over n items has issued when it made k calls
Requests(kind, k) ==
    [i \in 1..k |-> [kind |-> kind, index |-> i]]

\* ----------------------------------------------------------------- the nodes

\* _fetch_pr_data once get_pr_data and get_pr_diff returned data and diff
Fetched(data, data_from, diff, diff_from, calls) ==
    /\ pr_data' = data
    /\ diff_content' = diff
    /\ reasoning_trace' = reasoning_trace \o
           <<Entry("fetching", "", 0, 0, pr_url),
             Entry("retrieved", "", Len(diff),
                   IF "changed_files" \in DOMAIN data THEN data.changed_files ELSE 0, <<>>)>>
    /\ sources' = [pr_data |-> data_from, diff |-> diff_from]
    /\ api_calls' = api_calls \o calls
    /\ stage_log' = Append(stage_log, "fetch_pr")
    /\ pc' = edge("fetch_pr")
    /\ UNCHANGED <<pr_url, risk_level, analysis_strategy, vulnerabilities, suggested_fixes,
                   result, error, llm_calls, posted, review_posted, llm_replies, outside>>

\* SecurityGuardianAgent._fetch_pr_data with GitHubClient.get_pr_data and
\* get_pr_diff: without a client both return the mock data; with one the
\* reference is parsed (ValueError leaves the run) and each call either gets
\* the live data or, on a GithubException, the mock data
fetch_pr_data ==
    /\ pc = "fetch_pr"
    /\ IF ~token
       THEN Fetched(mock_pr_data, "mock", mock_diff, "mock", <<>>)
       ELSE IF ~parse_pr_url(pr_url).ok
            THEN Raise("fetch_pr", "ValueError", <<>>)
            ELSE \E data_ok \in BOOLEAN, diff_ok \in BOOLEAN :
                     Fetched(IF data_ok THEN live_pr_data(live_pr) ELSE mock_pr_data,
                             IF data_ok THEN "live" ELSE "mock",
                             IF diff_ok THEN live_pr_diff(live_pr) ELSE mock_diff,
                             IF diff_ok THEN "live" ELSE "mock",
                             <<[call |-> "get_pr_data", ok |-> data_ok],
                               [call |-> "get_pr_diff", ok |-> diff_ok]>>)

\* classify_risk without the .lower()
classify_risk_case_sensitive(response) ==
    IF Contains(response, s_high_risk) \/ Contains(response, s_critical)
    THEN [risk_level |-> "high", strategy |-> "deep_analysis"]
    ELSE IF Contains(response, s_medium_risk)
         THEN [risk_level |-> "medium", strategy |-> "deep_analysis"]
         ELSE [risk_level |-> "low", strategy |-> "quick_scan"]

\* the tier and strategy _assess_risk reads from the response
classify_risk(response) ==
    LET risk_assessment == Lower(response)
    IN  IF Contains(risk_assessment, s_high_risk) \/ Contains(risk_assessment, s_critical)
        THEN [risk_level |-> "high", strategy |-> "deep_analysis"]
        ELSE IF Contains(risk_assessment, s_medium_risk)
             THEN [risk_level |-> "medium", strategy |-> "deep_analysis"]
             ELSE [risk_level |-> "low", strategy |-> "quick_scan"]

\* risk_level.upper()
RiskUpper(level) ==
    Upper(CASE level = "high" -> s_high [] level = "medium" -> s_medium [] level = "low" -> s_low)

\* the 200 of risk_assessment[:200]
ReasoningLen ==
    200

\* _route_by_risk ignoring the strategy
route_always_quick(strategy) ==
    "quick"

\* SecurityGuardianAgent._route_by_risk
route_by_risk(strategy) ==
    IF strategy = "deep_analysis" THEN "deep" ELSE "quick"

\* the conditional edges of _build_graph
RouteTarget(route) ==
    IF route = "deep" THEN "deep_analysis" ELSE "quick_scan"

\* _assess_risk once llm.invoke returned response, then the conditional edge
Assessed(response) ==
    LET c == classify_risk(response)
    IN  /\ risk_level' = c.risk_level
        /\ analysis_strategy' = c.strategy
        /\ reasoning_trace' = reasoning_trace \o
               <<Entry("risk_assessment", c.risk_level, 0, 0, RiskUpper(c.risk_level)),
                 Entry("chosen_strategy", c.strategy, 0, 0, <<>>),
                 Entry("llm_reasoning", "", 0, 0, Take(Lower(response), ReasoningLen))>>
        /\ pc' = RouteTarget(route_by_risk(c.strategy))
        /\ llm_replies' = Append(llm_replies, response)

\* SecurityGuardianAgent._assess_risk: one request; its failure leaves the run
assess_risk ==
    /\ pc = "assess_risk"
    /\ \/ Raise("assess_risk", "LLMError", Requests("risk", 1))
       \/ /\ \E response \in RiskResponses : Assessed(response)
          /\ llm_calls' = llm_calls \o Requests("risk", 1)
          /\ stage_log' = Append(stage_log, "assess_risk")
          /\ UNCHANGED <<pr_url, pr_data, diff_content, vulnerabilities, suggested_fixes,
                         result, error, api_calls, posted, sources, review_posted, outside>>

\* the 3 of vulnerabilities[:3]
ShownFindings ==
    3

\* the 80 of vuln['description'][:80]
ShownDescriptionLen ==
    80

\* _quick_scan once SecurityScanner.quick_scan returned found
QuickScanned(found) ==
    /\ vulnerabilities' = found
    /\ reasoning_trace' = reasoning_trace \o
           <<Entry("quick_scan_found", "", Len(found), 0, <<>>)>> \o
           [i \in 1..Min(Len(found), ShownFindings) |->
               Entry("finding", found[i].type, 0, 0,
                     Take(found[i].description, ShownDescriptionLen))]

\* SecurityGuardianAgent._quick_scan
node_quick_scan ==
    /\ pc = "quick_scan"
    /\ \E found \in {quick_scan(diff_content)} : QuickScanned(found)
    /\ stage_log' = Append(stage_log, "quick_scan")
    /\ pc' = edge("quick_scan")
    /\ UNCHANGED <<pr_url, pr_data, diff_content, risk_level, analysis_strategy,
                   suggested_fixes, result, error, llm_calls, api_calls, posted, sources,
                   review_posted, llm_replies, outside>>

\* all_vulns = quick_vulns + deep_vulns
CombineFindings(quick_vulns, deep_vulns) ==
    quick_vulns \o deep_vulns

\* _deep_analysis once both scans returned, after k requests
DeepAnalysed(quick_vulns, deep_vulns, k) ==
    /\ vulnerabilities' = CombineFindings(quick_vulns, deep_vulns)
    /\ reasoning_trace' = reasoning_trace \o
           <<Entry("deep_analysis", "", Len(quick_vulns), Len(deep_vulns), <<>>),
             Entry("total", "", Len(quick_vulns) + Len(deep_vulns), 0, <<>>)>>
    /\ llm_calls' = llm_calls \o Requests("analysis", k)
    /\ stage_log' = Append(stage_log, "deep_analysis")
    /\ pc' = edge("deep_analysis")
    /\ UNCHANGED <<pr_url, pr_data, diff_content, risk_level, analysis_strategy,
                   suggested_fixes, result, error, api_calls, posted, sources,
                   review_posted, outside>>

\* SecurityScanner.deep_analysis over its candidates: one request per
\* candidate, in order; the first that fails leaves the run
AnalyseCandidates(quick_vulns, candidates) ==
    \/ \E failing \in 1..Len(candidates) :
           Raise("deep_analysis", "LLMError", Requests("analysis", failing))
    \/ \E analyses \in [1..Len(candidates) -> AnalysisResponses] :
           /\ DeepAnalysed(quick_vulns, AnalyzeFrom(candidates, analyses, 1), Len(candidates))
           /\ llm_replies' = llm_replies \o analyses

\* SecurityGuardianAgent._deep_analysis
node_deep_analysis ==
    /\ pc = "deep_analysis"
    /\ \E quick_vulns \in {quick_scan(diff_content)},
          candidates \in {deep_candidates(diff_content)} :
           AnalyseCandidates(quick_vulns, candidates)

\* vuln.get('code_snippet', '')
SnippetOf(vuln) ==
    IF "code_snippet" \in DOMAIN vuln THEN vuln.code_snippet ELSE <<>>

\* FixesGenerated with fixes.append(fix) done twice for every finding
FixesGeneratedTwice(fixes) ==
    /\ suggested_fixes' = fixes \o fixes
    /\ reasoning_trace' = Append(reasoning_trace, Entry("generated", "", Len(fixes), 0, <<>>))
    /\ llm_calls' = llm_calls \o Requests("fix", Len(fixes))
    /\ stage_log' = Append(stage_log, "generate_fixes")
    /\ pc' = edge("generate_fixes")
    /\ UNCHANGED <<pr_url, pr_data, diff_content, risk_level, analysis_strategy,
                   vulnerabilities, result, error, api_calls, posted, sources,
                   review_posted, outside>>

\* FixesGenerated with each fix put at the front of the list instead of appended
FixesGeneratedReversed(fixes) ==
    /\ suggested_fixes' = [i \in 1..Len(fixes) |-> fixes[Len(fixes) + 1 - i]]
    /\ reasoning_trace' = Append(reasoning_trace, Entry("generated", "", Len(fixes), 0, <<>>))
    /\ llm_calls' = llm_calls \o Requests("fix", Len(fixes))
    /\ stage_log' = Append(stage_log, "generate_fixes")
    /\ pc' = edge("generate_fixes")
    /\ UNCHANGED <<pr_url, pr_data, diff_content, risk_level, analysis_strategy,
                   vulnerabilities, result, error, api_calls, posted, sources,
                   review_posted, outside>>

\* _generate_fixes once every generate_fix returned
FixesGenerated(fixes) ==
    /\ suggested_fixes' = fixes
    /\ reasoning_trace' = Append(reasoning_trace, Entry("generated", "", Len(fixes), 0, <<>>))
    /\ llm_calls' = llm_calls \o Requests("fix", Len(fixes))
    /\ stage_log' = Append(stage_log, "generate_fixes")
    /\ pc' = edge("generate_fixes")
    /\ UNCHANGED <<pr_url, pr_data, diff_content, risk_level, analysis_strategy,
                   vulnerabilities, result, error, api_calls, posted, sources,
                   review_posted, outside>>

\* SecurityGuardianAgent._generate_fixes: nothing to do without findings;
\* else one request per finding, in order; the first that fails leaves the run
generate_fixes ==
    /\ pc = "generate_fixes"
    /\ IF Len(vulnerabilities) = 0
       THEN /\ reasoning_trace' = Append(reasoning_trace,
                                         Entry("skipping_fix_generation", "", 0, 0, <<>>))
            /\ suggested_fixes' = <<>>
            /\ llm_calls' = llm_calls
            /\ stage_log' = Append(stage_log, "generate_fixes")
            /\ pc' = edge("generate_fixes")
            /\ UNCHANGED <<pr_url, pr_data, diff_content, risk_level, analysis_strategy,
                           vulnerabilities, result, error, api_calls, posted, sources,
                           review_posted, llm_replies, outside>>
       ELSE \/ \E failing \in 1..Len(vulnerabilities) :
                   Raise("generate_fixes", "LLMError", Requests("fix", failing))
            \/ \E responses \in [1..Len(vulnerabilities) -> FixResponses] :
                   /\ FixesGenerated([i \in 1..Len(vulnerabilities) |->
                                         generate_fix(vulnerabilities[i],
                                                      SnippetOf(vulnerabilities[i]),
                                                      responses[i])])
                   /\ llm_replies' = llm_replies \o responses

RECURSIVE ValidateFromMarking(_, _, _, _)
\* ValidateFrom writing the verdict into each fix it keeps
ValidateFromMarking(fixes, i, valid_fixes, lines) ==
    IF i > Len(fixes) THEN [valid_fixes |-> valid_fixes, lines |-> lines]
    ELSE IF validate_fix(fixes[i])
         THEN ValidateFromMarking(fixes, i + 1,
                                  Append(valid_fixes, [fixes[i] EXCEPT !.type = "validated_fix"]),
                                  Append(lines, Entry("fix_validated", fixes[i].type, 0, 0, <<>>)))
         ELSE ValidateFromMarking(fixes, i + 1, valid_fixes,
                                  Append(lines, Entry("fix_validation_failed", fixes[i].type, 0,
                                                      0, <<>>)))

RECURSIVE ValidateFromUntilFailure(_, _, _, _)
\* ValidateFrom leaving the loop at the first fix that fails
ValidateFromUntilFailure(fixes, i, valid_fixes, lines) ==
    IF i > Len(fixes) THEN [valid_fixes |-> valid_fixes, lines |-> lines]
    ELSE IF validate_fix(fixes[i])
         THEN ValidateFromUntilFailure(fixes, i + 1, Append(valid_fixes, fixes[i]),
                                       Append(lines, Entry("fix_validated", fixes[i].type, 0,
                                                           0, <<>>)))
         ELSE [valid_fixes |-> valid_fixes,
               lines |-> Append(lines, Entry("fix_validation_failed", fixes[i].type, 0, 0,
                                             <<>>))]

RECURSIVE ValidateFrom(_, _, _, _)
\* the loop of _validate_fixes: the fixes kept and the trace lines appended
ValidateFrom(fixes, i, valid_fixes, lines) ==
    IF i > Len(fixes) THEN [valid_fixes |-> valid_fixes, lines |-> lines]
    ELSE IF validate_fix(fixes[i])
         THEN ValidateFrom(fixes, i + 1, Append(valid_fixes, fixes[i]),
                           Append(lines, Entry("fix_validated", fixes[i].type, 0, 0, <<>>)))
         ELSE ValidateFrom(fixes, i + 1, valid_fixes,
                           Append(lines, Entry("fix_validation_failed", fixes[i].type, 0, 0,
                                               <<>>)))

\* Validated with the trace rebuilt from the lines of the loop alone
ValidatedFromScratch(v) ==
    /\ suggested_fixes' = v.valid_fixes
    /\ reasoning_trace' = v.lines

\* Validated with state['suggested_fixes'] left as it was: the candidates
\* that failed stay in the list
ValidatedKeepingCandidates(v) ==
    /\ suggested_fixes' = suggested_fixes
    /\ reasoning_trace' = reasoning_trace \o v.lines

\* _validate_fixes once the loop ended with v
Validated(v) ==
    /\ suggested_fixes' = v.valid_fixes
    /\ reasoning_trace' = reasoning_trace \o v.lines

\* SecurityGuardianAgent._validate_fixes
validate_fixes ==
    /\ pc = "validate_fixes"
    /\ Validated(ValidateFrom(suggested_fixes, 1, <<>>, <<>>))
    /\ stage_log' = Append(stage_log, "validate_fixes")
    /\ pc' = edge("validate_fixes")
    /\ UNCHANGED <<pr_url, pr_data, diff_content, risk_level, analysis_strategy,
                   vulnerabilities, result, error, llm_calls, api_calls, posted, sources,
                   review_posted, llm_replies, outside>>

\* Reviewed without the else branch: a failure leaves no line in the trace
ReviewedSilently(ok, reviews, calls) ==
    /\ review_posted' = ok
    /\ posted' = posted \o reviews
    /\ api_calls' = api_calls \o calls
    /\ reasoning_trace' = IF ok
                          THEN Append(reasoning_trace, Entry("review_posted", "", 0, 0, <<>>))
                          ELSE reasoning_trace
    /\ stage_log' = Append(stage_log, "post_review")
    /\ pc' = edge("post_review")
    /\ UNCHANGED <<pr_url, pr_data, diff_content, risk_level, analysis_strategy,
                   vulnerabilities, suggested_fixes, result, error, llm_calls, sources,
                   llm_replies, outside>>

\* _post_review once GitHubClient.post_review returned ok
Reviewed(ok, reviews, calls) ==
    /\ review_posted' = ok
    /\ posted' = posted \o reviews
    /\ api_calls' = api_calls \o calls
    /\ reasoning_trace' = Append(reasoning_trace,
                                 IF ok THEN Entry("review_posted", "", 0, 0, <<>>)
                                 ELSE Entry("review_failed", "", 0, 0, <<>>))
    /\ stage_log' = Append(stage_log, "post_review")
    /\ pc' = edge("post_review")
    /\ UNCHANGED <<pr_url, pr_data, diff_content, risk_level, analysis_strategy,
                   vulnerabilities, suggested_fixes, result, error, llm_calls, sources,
                   llm_replies, outside>>

\* SecurityGuardianAgent._post_review with GitHubClient.post_review: without a
\* client the review is only printed and reported as posted; with one it is
\* created on the pull request, or a GithubException makes post_review
\* return False
post_review ==
    /\ pc = "post_review"
    /\ IF ~token
       THEN Reviewed(TRUE, <<>>, <<>>)
       ELSE IF ~parse_pr_url(pr_url).ok
            THEN Raise("post_review", "ValueError", <<>>)
            ELSE \E api_ok \in BOOLEAN :
                     Reviewed(api_ok,
                              IF api_ok
                              THEN <<[pr |-> parse_pr_url(pr_url).number,
                                      inline_suggestions |-> Len(suggested_fixes),
                                      body |-> format_review_comment(vulnerabilities,
                                                                     suggested_fixes,
                                                                     reasoning_trace)]>>
                              ELSE <<>>,
                              <<[call |-> "post_review", ok |-> api_ok]>>)

\* RunResult with fixes_generated counting the fixes requested, one for each
\* finding, instead of the fixes left after validation
RunResultCountingRequests ==
    [pr_url |-> pr_url,
     risk_level |-> risk_level,
     analysis_strategy |-> analysis_strategy,
     vulnerabilities_found |-> Len(vulnerabilities),
     fixes_generated |-> Len(vulnerabilities),
     reasoning_trace |-> reasoning_trace,
     vulnerabilities |-> vulnerabilities,
     suggested_fixes |-> suggested_fixes]

\* the dict analyze_pr returns from final_state
RunResult ==
    [pr_url |-> pr_url,
     risk_level |-> risk_level,
     analysis_strategy |-> analysis_strategy,
     vulnerabilities_found |-> Len(vulnerabilities),
     fixes_generated |-> Len(suggested_fixes),
     reasoning_trace |-> reasoning_trace,
     vulnerabilities |-> vulnerabilities,
     suggested_fixes |-> suggested_fixes]

\* analyze_pr after graph.invoke returned
return_result ==
    /\ pc = "END"
    /\ result' = RunResult
    /\ pc' = "done"
    /\ UNCHANGED <<agent_state, error, stage_log, llm_calls, api_calls, posted, sources,
                   review_posted, llm_replies, outside>>

Next ==
    \/ fetch_pr_data
    \/ assess_risk
    \/ node_quick_scan
    \/ node_deep_analysis
    \/ generate_fixes
    \/ validate_fixes
    \/ post_review
    \/ return_result

Spec ==
    Init /\ [][Next]_vars


\* ------------------------------------------- functions applied on their own

\* no run of analyze_pr is in progress
NoRun ==
    /\ pc = "idle"
    /\ other = <<>>
    /\ token = FALSE
    /\ live_pr = pr_docs
    /\ pr_url = <<>>
    /\ pr_data = <<>>
    /\ diff_content = <<>>
    /\ risk_level = ""
    /\ analysis_strategy = ""
    /\ vulnerabilities = <<>>
    /\ suggested_fixes = <<>>
    /\ reasoning_trace = <<>>
    /\ result = <<>>
    /\ error = "none"
    /\ stage_log = <<>>
    /\ llm_calls = <<>>
    /\ api_calls = <<>>
    /\ posted = <<>>
    /\ sources = [pr_data |-> "none", diff |-> "none"]
    /\ review_posted = FALSE
    /\ llm_replies = <<>>

\* the function named fn returned value for the argument fn_in
Returned(fn, value) ==
    /\ pc = "idle"
    /\ fn_out = <<"idle">>
    /\ fn_out' = <<fn, value>>
    /\ UNCHANGED <<pc, agent_state, result, error, stage_log, llm_calls, api_calls, posted,
                   sources, review_posted, llm_replies, token, live_pr, other, fn_in>>

\* the longest text handed to the scanner, in lines
MaxScanLines ==
    2

\* the texts of up to n lines of the catalogue
TextsOfLines(n) ==
    {Join(ls, s_newline) : ls \in UNION {[1..k -> ScanLineCatalogue] : k \in 1..n}}

InitScan ==
    /\ NoRun
    /\ fn_in \in TextsOfLines(MaxScanLines)
    /\ fn_out = <<"idle">>

\* scanner.quick_scan(code) called for fn_in
ApplyQuickScan ==
    Returned("quick_scan", quick_scan(fn_in))

NextScan ==
    ApplyQuickScan

SpecScan ==
    InitScan /\ [][NextScan]_vars

\* fragments a response of the reasoning service is put together from
RiskFragments ==
    {<<"H","I","G","H"," ","R","I","S","K">>, <<"H","i","g","h">>, <<" ">>,
     <<"R","i","s","k">>, <<"M","e","d","i","u","m"," ","r","i","s","k">>,
     <<"C","R","I","T","I","C","A","L">>, <<"l","o","w">>}

\* the longest response, in fragments
MaxRiskFragments ==
    3

RECURSIVE Concat(_)
Concat(parts) ==
    IF Len(parts) = 0 THEN <<>> ELSE parts[1] \o Concat(Tail(parts))

ResponsesOf(n) ==
    {Concat(fs) : fs \in UNION {[1..k -> RiskFragments] : k \in 1..n}}

InitRisk ==
    /\ NoRun
    /\ fn_in \in ResponsesOf(MaxRiskFragments)
    /\ fn_out = <<"idle">>

\* the classification _assess_risk makes of the response fn_in
ApplyClassifyRisk ==
    Returned("classify_risk", classify_risk(fn_in))

NextRisk ==
    ApplyClassifyRisk

SpecRisk ==
    InitRisk /\ [][NextRisk]_vars

\* what the answer holds before the block labelled python: nothing, the
\* FIXED CODE: heading, or an unlabelled block
FixBefore ==
    {<<>>, s_fixed_code \o s_newline,
     s_fence \o s_newline \o py_old_call \o s_newline \o s_fence \o s_newline}

s_reads_safely ==
    <<" ","R","e","a","d","s"," ","t","h","e"," ","v","a","l","u","e"," ","s","a","f","e","l","y",
      ".">>

\* what the answer holds after the block: nothing, the explanation, or an
\* unlabelled block
FixAfter ==
    {<<>>, s_newline \o s_explanation \o s_reads_safely,
     s_newline \o s_fence \o s_newline \o py_old_call \o s_newline \o s_fence}

\* the indentation of the block: none, or that of a block inside a list item
FenceIndents ==
    {<<>>, <<" "," "," ">>}

\* the lines a block is made of
BlockLines ==
    AcceptedLines \cup {py_unclosed}

RECURSIVE BlockBody(_, _)
\* the lines of the block, each with the indentation and its line end
BlockBody(lines, indent) ==
    IF Len(lines) = 0 THEN <<>>
    ELSE indent \o lines[1] \o s_newline \o BlockBody(Tail(lines), indent)

\* response.content: an answer with one block labelled python
FencedResponse(r) ==
    r.before \o r.indent \o s_fence_python \o s_newline \o BlockBody(r.lines, r.indent)
    \o r.indent \o s_fence \o r.after

\* the code between the fences of the block
BlockContents(r) ==
    Join(r.lines, s_newline)

\* the finding the fix is requested for
FixedFinding ==
    PatternFinding("hardcoded_credentials", patterns[2].patterns[1].description, 1, ln_password)

InitFix ==
    /\ NoRun
    /\ fn_in \in [before : FixBefore, indent : FenceIndents,
                   lines : UNION {[1..k -> BlockLines] : k \in 0..MaxBlockLines},
                   after : FixAfter]
    /\ fn_out = <<"idle">>

\* the fix with what validate_fix returns for it
FixAndVerdict(fix) ==
    [fix |-> fix, valid |-> validate_fix(fix)]

\* code_generator.generate_fix(...) answered with the response of fn_in,
\* then code_generator.validate_fix(fix)
ApplyGenerateFix ==
    Returned("generate_fix",
             FixAndVerdict(generate_fix(FixedFinding, SnippetOf(FixedFinding),
                                        FencedResponse(fn_in))))

NextFix ==
    ApplyGenerateFix

SpecFix ==
    InitFix /\ [][NextFix]_vars

\* texts scanned one after the other by one scanner
RescanTexts ==
    {ln_docs, ln_password, ln_eval_password,
     Join(<<ln_execute_long_a, ln_execute_long_b>>, s_newline)}

\* the most calls made to one scanner
MaxScans ==
    3

\* fn_in holds the code of each call, in the order of the calls
InitRescan ==
    /\ NoRun
    /\ fn_in \in UNION {[1..k -> RescanTexts] : k \in 1..MaxScans}
    /\ fn_out = <<"idle">>

\* the results of the calls made so far
ScansDone ==
    IF fn_out[1] = "scans" THEN fn_out[2] ELSE <<>>

\* the next scanner.quick_scan(code) of the sequence, on the same scanner
ApplyNextQuickScan ==
    /\ pc = "idle"
    /\ Len(ScansDone) < Len(fn_in)
    /\ fn_out' = <<"scans", Append(ScansDone, quick_scan(fn_in[Len(ScansDone) + 1]))>>
    /\ UNCHANGED <<pc, agent_state, result, error, stage_log, llm_calls, api_calls, posted,
                   sources, review_posted, llm_replies, token, live_pr, other, fn_in>>

NextRescan ==
    ApplyNextQuickScan

SpecRescan ==
    InitRescan /\ [][NextRescan]_vars

\* the categories a finding is given by the patterns and by _analyze_with_llm,
\* and three that neither gives
Categories ==
    {"sql_injection", "hardcoded_credentials", "xss", "path_traversal", "unknown",
     "command_injection", "weak_crypto", "insecure_deserialization"}

\* the longest list of categories handed to _get_severity one by one
MaxCategories ==
    2

InitSeverity ==
    /\ NoRun
    /\ fn_in \in UNION {[1..k -> Categories] : k \in 1..MaxCategories}
    /\ fn_out = <<"idle">>

\* self._get_severity(vuln_type) called for each category of fn_in
ApplyGetSeverity ==
    Returned("get_severity", [i \in 1..Len(fn_in) |-> get_severity(fn_in[i])])

NextSeverity ==
    ApplyGetSeverity

SpecSeverity ==
    InitSeverity /\ [][NextSeverity]_vars

\* an assignment left open, of exactly MinUnparsedLen characters
py_open_long ==
    <<"v","a","l","u","e","s"," ","="," ","[">>

\* the lines a fixed_code is made of: those ast.parse accepts, the indented
\* call, two assignments left open and a fence
FixedCodeLines ==
    AcceptedLines \cup {py_indented_call, py_unclosed, py_open_long, s_fence}

\* the fixes handed to validate_fix: one for each text of up to
\* MaxBlockLines lines, and one without the fixed_code key
FixesToValidate ==
    {[type |-> "hardcoded_credentials_fix", fixed_code |-> Join(ls, s_newline)] :
         ls \in UNION {[1..k -> FixedCodeLines] : k \in 1..MaxBlockLines}}
    \cup {[type |-> "hardcoded_credentials_fix"]}

InitValidate ==
    /\ NoRun
    /\ fn_in \in FixesToValidate
    /\ fn_out = <<"idle">>

\* code_generator.validate_fix(fix) called for fn_in
ApplyValidateFix ==
    Returned("validate_fix", validate_fix(fn_in))

NextValidate ==
    ApplyValidateFix

SpecValidate ==
    InitValidate /\ [][NextValidate]_vars

\* ------------------------------------------------------- runs that go on

\* graph.invoke runs the node pc names as soon as the node before it
\* returned, and analyze_pr returns once the graph reached END: a run in
\* which a step can be taken takes it
SpecLive ==
    Spec /\ WF_vars(Next)

\* ---------------------------------------------- deep_analysis on long texts

\* a call left open on the i-th letter, which ast.parse rejects
py_open_call(i) ==
    <<LetterAt(i), "(">>

\* n lines, the i-th an open call on the i-th letter
OpenCallLines(n) ==
    [i \in 1..n |-> py_open_call(i)]

\* the line counts of the texts that do not parse: one line, a full chunk,
\* one line more, as many lines as are analysed, one line more, one chunk
\* more
UnparsedLineCounts ==
    {1, ChunkLines, ChunkLines + 1, MaxChunks * ChunkLines, MaxChunks * ChunkLines + 1,
     (MaxChunks + 1) * ChunkLines}

\* the texts handed to deep_analysis with what the reasoning service answers:
\* its odd calls get replies[1], its even calls replies[2]
DeepInputs ==
    {[parses |-> TRUE, lines |-> n, code |-> Join(RawCallLines(n), s_newline),
      replies |-> r] : n \in 1..MaxCallLines, r \in AnalysisResponses \X AnalysisResponses}
    \cup
    {[parses |-> FALSE, lines |-> n, code |-> Join(OpenCallLines(n), s_newline),
      replies |-> r] : n \in UnparsedLineCounts, r \in AnalysisResponses \X AnalysisResponses}

\* what the i-th llm.invoke of the call returns
DeepReply(i) ==
    fn_in.replies[((i - 1) % 2) + 1]

\* the snippets sent and the findings returned
DeepOutcome(candidates) ==
    [candidates |-> candidates,
     vulnerabilities |-> AnalyzeFrom(candidates, [i \in DOMAIN candidates |-> DeepReply(i)], 1)]

InitDeep ==
    /\ NoRun
    /\ fn_in \in DeepInputs
    /\ fn_out = <<"idle">>

\* security_scanner.deep_analysis(code, llm) called for fn_in
ApplyDeepAnalysis ==
    Returned("deep_analysis", DeepOutcome(deep_candidates(fn_in.code)))

NextDeep ==
    ApplyDeepAnalysis

SpecDeep ==
    InitDeep /\ [][NextDeep]_vars

\* --------------------------------------- _analyze_with_llm on many responses

\* pieces of a response of the reasoning service to one candidate
AnalysisFragments ==
    {<<"S","Q","L"," ","I","n","j","e","c","t","i","o","n">>,
     <<"P","a","s","s","w","o","r","d">>, <<"c","r","e","d","e","n","t","i","a","l">>,
     <<"X","S","S">>, <<"P","a","t","h"," ","T","r","a","v","e","r","s","a","l">>,
     <<"C","R","I","T","I","C","A","L">>, <<"H","i","g","h">>, <<"l","o","w">>,
     <<"N","o"," ","S","e","c","u","r","i","t","y"," ","I","s","s","u","e","s">>,
     <<"N","o"," ","v","u","l","n","e","r","a","b","i","l","i","t","i","e","s">>,
     <<"."," ">>}

\* the longest response, in fragments
MaxAnalysisFragments ==
    2

\* a response longer than the description kept of it, which names its
\* category and severity past the cut
analysis_long ==
    [i \in 1..DescriptionLen |-> "x"] \o <<" ","X","S","S"," ","h","i","g","h">>

AnalysesOf(n) ==
    {Concat(fs) : fs \in UNION {[1..k -> AnalysisFragments] : k \in 1..n}}
    \cup {analysis_long}

InitAnalyze ==
    /\ NoRun
    /\ fn_in \in AnalysesOf(MaxAnalysisFragments)
    /\ fn_out = <<"idle">>

\* _analyze_with_llm(code_snippet, full_context, llm) when llm.invoke returns
\* fn_in for the candidate py_old_call
ApplyAnalyzeWithLlm ==
    Returned("analyze_with_llm", analyze_with_llm(py_old_call, fn_in))

NextAnalyze ==
    ApplyAnalyzeWithLlm

SpecAnalyze ==
    InitAnalyze /\ [][NextAnalyze]_vars

\* ------------------------------------------- cloud function webhook_handler

\* os.getenv('GITHUB_WEBHOOK_SECRET'): "unset" for None, the empty string, a
\* secret
WebhookSecrets ==
    {"unset", "", "s3cret"}

\* the bodies of the requests: a pull_request payload for each action, one
\* without action, one without pull_request, a body that is not JSON for
\* which get_json returns None, and one for which it raises BadRequest
RequestBodies ==
    {"opened", "synchronize", "closed", "no_action", "no_pull_request", "not_json",
     "malformed_json"}

\* request.get_json(): a dict with its entries, None, or BadRequest raised
get_json(body) ==
    CASE body \in {"opened", "synchronize", "closed"} ->
             [is |-> "dict",
              dict |-> [action |-> body,
                        pull_request |-> [html_url |-> url_pull, number |-> 7]]]
      [] body = "no_action" ->
             [is |-> "dict", dict |-> [pull_request |-> [html_url |-> url_pull, number |-> 7]]]
      [] body = "no_pull_request" -> [is |-> "dict", dict |-> [action |-> "opened"]]
      [] body = "not_json" -> [is |-> "None"]
      [] OTHER -> [is |-> "BadRequest"]

\* the text 'sha256=' + hmac.new(key, body, hashlib.sha256).hexdigest(): the
\* digest stands for itself, two digests being equal when key and body are
\* (ascii says that every character of the text is ASCII)
SignatureOf(key, body) ==
    [scheme |-> "sha256=", key |-> key, body |-> body, ascii |-> TRUE]

\* '', what headers.get('X-Hub-Signature-256', '') gives for a missing header
EmptySignature ==
    [scheme |-> "", key |-> "", body |-> "", ascii |-> TRUE]

\* a body other than body
OtherBody(body) ==
    IF body = "closed" THEN "opened" ELSE "closed"

\* the values of the header X-Hub-Signature-256 sent with body: none, the
\* signature under the secret, under another key, of another body, the
\* digest without 'sha256=' before it, and a text with a character outside
\* ASCII
SignaturesFor(body) ==
    {EmptySignature, SignatureOf("s3cret", body), SignatureOf("guess", body),
     SignatureOf("s3cret", OtherBody(body)),
     [scheme |-> "", key |-> "s3cret", body |-> body, ascii |-> TRUE],
     [scheme |-> "sha256=", key |-> "", body |-> "", ascii |-> FALSE]}

\* hmac.compare_digest(a, b) on two str: TypeError unless both are ASCII
compare_digest(a, b) ==
    IF a.ascii /\ b.ascii THEN (IF a = b THEN "True" ELSE "False") ELSE "TypeError"

\* verify_github_signature with every signature accepted
verify_nothing(request) ==
    "True"

\* verify_github_signature(request): "True", "False" or the exception raised
verify_github_signature(request) ==
    IF request.secret \in {"unset", ""} THEN "True"
    ELSE IF request.signature = EmptySignature THEN "False"
    ELSE compare_digest(request.signature, SignatureOf(request.secret, request.body))

\* what one call of webhook_handler does: the status of the response (500
\* when an exception leaves the handler), the calls of log_webhook_event,
\* of run_security_analysis and of log_analysis_result
HandlerOutcome(status, events, analyses, results) ==
    [status |-> status, events |-> events, analyses |-> analyses, results |-> results]

\* dict.get(key) with None as "None"
PayloadGet(payload, key) ==
    IF key \in DOMAIN payload THEN payload[key] ELSE "None"

\* webhook_handler(request) once verification passed
handle_verified(request, payload) ==
    IF payload.is = "BadRequest" THEN HandlerOutcome(400, <<>>, <<>>, <<>>)
    ELSE IF request.event_type # "pull_request" THEN HandlerOutcome(200, <<>>, <<>>, <<>>)
    ELSE IF payload.is = "None" THEN HandlerOutcome(500, <<>>, <<>>, <<>>)
    ELSE IF PayloadGet(payload.dict, "action") \notin {"opened", "synchronize"}
    THEN HandlerOutcome(200, <<>>, <<>>, <<>>)
    ELSE LET pr == IF "pull_request" \in DOMAIN payload.dict THEN payload.dict.pull_request
                   ELSE <<>>
             url == PayloadGet(pr, "html_url")
             event == [event_type |-> request.event_type, action |-> payload.dict.action]
         IN  IF request.analysis = "returns"
             THEN HandlerOutcome(200, <<event>>, <<url>>, <<url>>)
             ELSE HandlerOutcome(500, <<event>>, <<url>>, <<>>)

\* webhook_handler(request)
webhook_handler(request) ==
    CASE verify_github_signature(request) = "TypeError" ->
             HandlerOutcome(500, <<>>, <<>>, <<>>)
      [] verify_github_signature(request) = "False" -> HandlerOutcome(401, <<>>, <<>>, <<>>)
      [] OTHER -> handle_verified(request, get_json(request.body))

\* the requests and their surroundings: the secret of the environment, the
\* headers X-Hub-Signature-256 and X-GitHub-Event ("None" when missing), the
\* body, and whether run_security_analysis returns or raises
WebhookRequests ==
    {[secret |-> k, signature |-> g, body |-> b, event_type |-> e, analysis |-> a] :
         k \in WebhookSecrets, b \in RequestBodies, e \in {"pull_request", "push", "None"},
         a \in {"returns", "raises"}, g \in UNION {SignaturesFor(x) : x \in RequestBodies}}

InitWebhook ==
    /\ NoRun
    /\ fn_in \in {r \in WebhookRequests : r.signature \in SignaturesFor(r.body)}
    /\ fn_out = <<"idle">>

\* the cloud function called with the request fn_in
ApplyWebhookHandler ==
    Returned("webhook_handler", webhook_handler(fn_in))

NextWebhook ==
    ApplyWebhookHandler

SpecWebhook ==
    InitWebhook /\ [][NextWebhook]_vars

\* ------------------------------------------ two analyze_pr calls on one agent

\* the call other than run
OtherRun(run) ==
    IF run = "first" THEN "second" ELSE "first"

\* the call that is executing: the one not suspended in other
Running ==
    OtherRun(other.run)

\* everything the executing call holds: pr_url, the state graph.invoke
\* threads through the nodes (initial_state is a local of analyze_pr), its
\* position, and what has been recorded of it
Frame ==
    [pc |-> pc,
     pr_url |-> pr_url,
     pr_data |-> pr_data,
     diff_content |-> diff_content,
     risk_level |-> risk_level,
     analysis_strategy |-> analysis_strategy,
     vulnerabilities |-> vulnerabilities,
     suggested_fixes |-> suggested_fixes,
     reasoning_trace |-> reasoning_trace,
     result |-> result,
     error |-> error,
     stage_log |-> stage_log,
     llm_calls |-> llm_calls,
     api_calls |-> api_calls,
     posted |-> posted,
     sources |-> sources,
     review_posted |-> review_posted,
     llm_replies |-> llm_replies]

\* the frame of a call analyze_pr(url) that has not entered a node yet
NewFrame(url) ==
    [pc |-> entry_point,
     pr_url |-> url,
     pr_data |-> <<>>,
     diff_content |-> <<>>,
     risk_level |-> "",
     analysis_strategy |-> "",
     vulnerabilities |-> <<>>,
     suggested_fixes |-> <<>>,
     reasoning_trace |-> <<>>,
     result |-> <<>>,
     error |-> "none",
     stage_log |-> <<>>,
     llm_calls |-> <<>>,
     api_calls |-> <<>>,
     posted |-> <<>>,
     sources |-> [pr_data |-> "none", diff |-> "none"],
     review_posted |-> FALSE,
     llm_replies |-> <<>>]

\* the call with frame f has entered a node and has not left analyze_pr
InProgress(f) ==
    f.stage_log # <<>> /\ f.pc \notin {"done", "failed"}

\* the call with frame f has not entered a node yet
NotStarted(f) ==
    f.stage_log = <<>> /\ f.pc = entry_point

\* the calls are concurrent: there is a second one, and it enters its first
\* node while the first is part-way
Concurrent ==
    /\ DOMAIN other # {}
    /\ NotStarted(other.frame) => InProgress(Frame)

\* the suspended call after a switch: the executing one
Suspended ==
    [run |-> Running, frame |-> Frame]

\* Switch with reasoning_trace kept on the agent, one list for both calls,
\* instead of in the state of each call
SwitchSharingTrace ==
    /\ Concurrent
    /\ other' = Suspended
    /\ pc' = other.frame.pc
    /\ pr_url' = other.frame.pr_url
    /\ pr_data' = other.frame.pr_data
    /\ diff_content' = other.frame.diff_content
    /\ risk_level' = other.frame.risk_level
    /\ analysis_strategy' = other.frame.analysis_strategy
    /\ vulnerabilities' = other.frame.vulnerabilities
    /\ suggested_fixes' = other.frame.suggested_fixes
    /\ result' = other.frame.result
    /\ error' = other.frame.error
    /\ stage_log' = other.frame.stage_log
    /\ llm_calls' = other.frame.llm_calls
    /\ api_calls' = other.frame.api_calls
    /\ posted' = other.frame.posted
    /\ sources' = other.frame.sources
    /\ review_posted' = other.frame.review_posted
    /\ llm_replies' = other.frame.llm_replies
    /\ reasoning_trace' = reasoning_trace
    /\ UNCHANGED <<token, live_pr, fn_in, fn_out>>

\* the scheduler suspends the executing call between two nodes and resumes
\* the other one: each call finds its own pr_url and state again
Switch ==
    /\ Concurrent
    /\ other' = Suspended
    /\ pc' = other.frame.pc
    /\ pr_url' = other.frame.pr_url
    /\ pr_data' = other.frame.pr_data
    /\ diff_content' = other.frame.diff_content
    /\ risk_level' = other.frame.risk_level
    /\ analysis_strategy' = other.frame.analysis_strategy
    /\ vulnerabilities' = other.frame.vulnerabilities
    /\ suggested_fixes' = other.frame.suggested_fixes
    /\ reasoning_trace' = other.frame.reasoning_trace
    /\ result' = other.frame.result
    /\ error' = other.frame.error
    /\ stage_log' = other.frame.stage_log
    /\ llm_calls' = other.frame.llm_calls
    /\ api_calls' = other.frame.api_calls
    /\ posted' = other.frame.posted
    /\ sources' = other.frame.sources
    /\ review_posted' = other.frame.review_posted
    /\ llm_replies' = other.frame.llm_replies
    /\ UNCHANGED <<token, live_pr, fn_in, fn_out>>

\* the second call, not started, beside the first
SecondCall(url) ==
    [run |-> "second", frame |-> NewFrame(url)]

\* two calls on one agent, so with one client: without a token both get the
\* mock data, whatever their references; with one, a call for the pull
\* request pr_logo runs beside a call whose reference does not parse
InitPair ==
    /\ InitRun
    /\ \/ /\ token = FALSE
          /\ live_pr = pr_docs
          /\ pr_url = url_pull
          /\ other = SecondCall(url_issue)
       \/ /\ token = TRUE
          /\ live_pr = pr_logo
          /\ pr_url = url_pull
          /\ other = SecondCall(url_garbage)
    /\ fn_in = <<>>
    /\ fn_out = <<"idle">>

NextPair ==
    \/ Next
    \/ Switch

SpecPair ==
    InitPair /\ [][NextPair]_vars

\* --------------------------------------------------------------- properties

Last(s) ==
    s[Len(s)]

Range(s) ==
    {s[i] : i \in 1..Len(s)}

NoRepeats(s) ==
    \A i, j \in 1..Len(s) : i # j => s[i] # s[j]

\* the order of the stages: each pair is a stage and one that may follow it
StageOrder ==
    {<<"fetch_pr", "assess_risk">>, <<"assess_risk", "quick_scan">>,
     <<"assess_risk", "deep_analysis">>, <<"quick_scan", "generate_fixes">>,
     <<"deep_analysis", "generate_fixes">>, <<"generate_fixes", "validate_fixes">>,
     <<"validate_fixes", "post_review">>}

\* C1: the stages run in the order fetch_pr, assess_risk, one of quick_scan
\* and deep_analysis, generate_fixes, validate_fixes, post_review: the run
\* starts in fetch_pr, no stage runs twice, a stage starts only after the one
\* before it returned, and END is reached only from post_review.
C1_StagesInOrder ==
    /\ NoRepeats(stage_log)
    /\ stage_log # <<>> => stage_log[1] = "fetch_pr"
    /\ \A i \in 1..(Len(stage_log) - 1) : <<stage_log[i], stage_log[i + 1]>> \in StageOrder
    /\ ~({"quick_scan", "deep_analysis"} \subseteq Range(stage_log))
    /\ pc \in Stages =>
           IF stage_log = <<>> THEN pc = "fetch_pr" ELSE <<Last(stage_log), pc>> \in StageOrder
    /\ pc \in {"END", "done"} => Len(stage_log) = 6 /\ Last(stage_log) = "post_review"

\* a run that took the quick_scan branch has returned
C1_Witness ==
    /\ pc = "done"
    /\ stage_log = <<"fetch_pr", "assess_risk", "quick_scan", "generate_fixes",
                     "validate_fixes", "post_review">>

\* assess_risk has run and returned
AssessCompleted ==
    /\ "assess_risk" \in Range(stage_log)
    /\ ~(pc = "failed" /\ Last(stage_log) = "assess_risk")

TierMatchesStrategy(tier, strategy) ==
    /\ tier \in {"low", "medium", "high"}
    /\ strategy \in {"quick_scan", "deep_analysis"}
    /\ tier = "low" <=> strategy = "quick_scan"

\* C2: once assess_risk has completed, and in the returned result, risk_level
\* is low, medium or high, analysis_strategy is quick_scan or deep_analysis,
\* and risk_level is low exactly when the strategy is quick_scan; the branch
\* that runs after assess_risk is the one the strategy names.
C2_TierAndStrategy ==
    /\ AssessCompleted =>
           /\ TierMatchesStrategy(risk_level, analysis_strategy)
           /\ Len(stage_log) = 2 => pc = analysis_strategy
           /\ Len(stage_log) >= 3 => stage_log[3] = analysis_strategy
    /\ pc = "done" => TierMatchesStrategy(result.risk_level, result.analysis_strategy)

\* a run assessed as medium has gone through deep_analysis and returned
C2_Witness ==
    /\ pc = "done"
    /\ result.risk_level = "medium"
    /\ stage_log[3] = "deep_analysis"

\* sub occurs in s when letter case is ignored
ContainsIgnoringCase(s, sub) ==
    \E i \in 1..(Len(s) - Len(sub) + 1) :
        \A j \in 1..Len(sub) : LowerChar(s[i + j - 1]) = LowerChar(sub[j])

\* the tier the response stands for
TierOf(response) ==
    IF ContainsIgnoringCase(response, s_high_risk) \/ ContainsIgnoringCase(response, s_critical)
    THEN "high"
    ELSE IF ContainsIgnoringCase(response, s_medium_risk) THEN "medium"
    ELSE "low"

ClassifiedAs(response, c) ==
    /\ c.risk_level = TierOf(response)
    /\ Contains(response, Upper(s_high_risk)) =>
           c.risk_level = "high" /\ c.strategy = "deep_analysis"
    /\ (/\ ~ContainsIgnoringCase(response, s_high_risk)
        /\ ~ContainsIgnoringCase(response, s_critical)
        /\ ~ContainsIgnoringCase(response, s_medium_risk)) =>
           c.risk_level = "low" /\ c.strategy = "quick_scan"

\* C3: the tier is high if the response, compared without regard to case,
\* contains "high risk" or "critical", otherwise medium if it contains
\* "medium risk", otherwise low; "HIGH RISK" gives high with deep_analysis
\* and a response with none of the substrings gives low with quick_scan.
C3_ClassifiedBySubstring ==
    fn_out[1] = "classify_risk" => ClassifiedAs(fn_in, fn_out[2])

\* a response with "HIGH RISK" and "Medium risk" was classified high, with
\* deep_analysis
C3_Witness ==
    /\ fn_out[1] = "classify_risk"
    /\ Contains(fn_in, Upper(s_high_risk))
    /\ ContainsIgnoringCase(fn_in, s_medium_risk)
    /\ fn_out[2] = [risk_level |-> "high", strategy |-> "deep_analysis"]

\* the (category, first 50 characters of the snippet) of a finding
FindingKey(v) ==
    <<v.type, SubSeq(v.code_snippet, 1, IF Len(v.code_snippet) < 50 THEN Len(v.code_snippet)
                                        ELSE 50)>>

NoDuplicateKeys(vulns) ==
    \A i, j \in 1..Len(vulns) : i < j => FindingKey(vulns[i]) # FindingKey(vulns[j])

\* C4: the run's vulnerability list never holds two entries with the same
\* (category, first 50 characters of snippet), on either branch.
C4_VulnerabilitiesDeduplicated ==
    NoDuplicateKeys(vulnerabilities)

\* the positions of generated whose key no earlier position has
FirstOfKey(generated) ==
    {i \in 1..Len(generated) :
        \A j \in 1..(i - 1) : FindingKey(generated[j]) # FindingKey(generated[i])}

\* the k-th smallest member of a set of numbers
Kth(S, k) ==
    CHOOSE i \in S : Cardinality({j \in S : j < i}) = k - 1

\* kept holds, in order, the entries of generated at the positions firsts
KeepsExactly(kept, generated, firsts) ==
    /\ Len(kept) = Cardinality(firsts)
    /\ \A k \in 1..Len(kept) : kept[k] = generated[Kth(firsts, k)]

KeepsFirsts(kept, generated) ==
    /\ NoDuplicateKeys(kept)
    /\ KeepsExactly(kept, generated, FirstOfKey(generated))

\* C5: the list quick_scan returns holds no two entries with the same
\* (category, first 50 characters of snippet), and for each key it holds the
\* first entry generated in category, pattern and line order.
C5_QuickScanKeepsFirst ==
    fn_out[1] = "quick_scan" => KeepsFirsts(fn_out[2], AllMatches(fn_in))

DroppedDifferentSnippet(kept, generated) ==
    \E i, j \in 1..Len(generated) :
        /\ i < j
        /\ FindingKey(generated[i]) = FindingKey(generated[j])
        /\ generated[i].code_snippet # generated[j].code_snippet
        /\ \E k \in 1..Len(kept) : kept[k] = generated[i]

\* quick_scan dropped a finding whose snippet differs from the kept one's
\* after the 50th character
C5_Witness ==
    /\ fn_out[1] = "quick_scan"
    /\ DroppedDifferentSnippet(fn_out[2], AllMatches(fn_in))

\* C6: when a reasoning-service call raises in assess_risk, deep_analysis or
\* generate_fixes, the error leaves analyze_pr, which returns no result,
\* post_review is not invoked, and no request is issued twice.
C6_LlmFailureAborts ==
    /\ NoRepeats(llm_calls)
    /\ error = "LLMError" =>
           /\ pc = "failed"
           /\ result = <<>>
           /\ Last(stage_log) \in {"assess_risk", "deep_analysis", "generate_fixes"}
           /\ "post_review" \notin Range(stage_log)
           /\ posted = <<>>
           /\ \A i \in 1..Len(api_calls) : api_calls[i].call # "post_review"

\* the second request for a fix failed, after the risk, analysis and first
\* fix requests returned
C6_Witness ==
    /\ error = "LLMError"
    /\ Last(stage_log) = "generate_fixes"
    /\ Last(llm_calls) = [kind |-> "fix", index |-> 2]

\* the node that writes a line of the trace
WrittenBy(kind) ==
    CASE kind \in {"fetching", "retrieved"} -> "fetch_pr"
      [] kind \in {"risk_assessment", "chosen_strategy", "llm_reasoning"} -> "assess_risk"
      [] kind \in {"quick_scan_found", "finding"} -> "quick_scan"
      [] kind \in {"deep_analysis", "total"} -> "deep_analysis"
      [] kind \in {"skipping_fix_generation", "generated"} -> "generate_fixes"
      [] kind \in {"fix_validated", "fix_validation_failed"} -> "validate_fixes"
      [] kind \in {"review_posted", "review_failed"} -> "post_review"

\* C7: when a stage fails, the trace already holds a line of that stage.
C7_TraceRecordsFailedStage ==
    pc = "failed" =>
        \E i \in 1..Len(reasoning_trace) :
            WrittenBy(reasoning_trace[i].kind) = Last(stage_log)

\* C8: a PR reference that is not .../<owner>/<repo>/pull/<number> makes
\* analyze_pr fail before any PR data or diff is fetched or substituted,
\* with or without a token.
C8_MalformedReferenceIsHardError ==
    (~parse_pr_url(pr_url).ok /\ pc # "fetch_pr") =>
        /\ pc = "failed"
        /\ error = "ValueError"
        /\ pr_data = <<>>
        /\ diff_content = <<>>

\* the run used the mock data or the mock diff
FellBack ==
    sources.pr_data = "mock" \/ sources.diff = "mock"

\* C9: a run that fell back to the mock dataset completes with a line in
\* its trace reporting the fallback.  (Every line a node writes has one of
\* the kinds of WrittenBy; a line reporting the fallback would be of a kind
\* of its own.)
C9_FallbackReportedInTrace ==
    (pc = "done" /\ FellBack) =>
        \E i \in 1..Len(result.reasoning_trace) :
            result.reasoning_trace[i].kind = "fallback"

\* GitHub refused the review
PublishFailed ==
    \E i \in 1..Len(api_calls) : api_calls[i] = [call |-> "post_review", ok |-> FALSE]

ResultKeys ==
    {"pr_url", "risk_level", "analysis_strategy", "vulnerabilities_found", "fixes_generated",
     "reasoning_trace", "vulnerabilities", "suggested_fixes"}

\* C10, as the code has it: when publishing fails analyze_pr does not raise
\* and returns the full result, whose trace ends with the failure line of
\* post_review; the result has no field for the outcome of publishing.
C10_PublishFailureInTraceOnly ==
    PublishFailed =>
        /\ pc \in {"END", "done"}
        /\ error = "none"
        /\ ~review_posted
        /\ Last(reasoning_trace).kind = "review_failed"
        /\ pc = "done" =>
               /\ DOMAIN result = ResultKeys
               /\ result.reasoning_trace = reasoning_trace
               /\ result.vulnerabilities = vulnerabilities
               /\ result.suggested_fixes = suggested_fixes
               /\ result.vulnerabilities_found = Len(vulnerabilities)
               /\ result.fixes_generated = Len(suggested_fixes)

\* a run with findings has returned after GitHub refused its review
C10_Witness ==
    /\ pc = "done"
    /\ PublishFailed
    /\ Len(result.vulnerabilities) > 0

\* C10, as stated: when publishing fails the returned result reports it as
\* published = false.
C10_PublishFailureReportedAsFlag ==
    (pc = "done" /\ PublishFailed) =>
        /\ "published" \in DOMAIN result
        /\ result.published = FALSE

\* C11: at every point of a run the fix list is no longer than the
\* vulnerability list, and validate_fixes leaves the fix list no longer than
\* generate_fixes made it.
C11_FixesBounded ==
    /\ [](Len(suggested_fixes) <= Len(vulnerabilities))
    /\ [][pc = "validate_fixes" => Len(suggested_fixes') <= Len(suggested_fixes)]_vars

\* a run with several findings has returned after validation dropped some of
\* the generated fixes and kept others
C11_Witness ==
    /\ pc = "done"
    /\ Len(result.suggested_fixes) >= 1
    /\ Len(result.suggested_fixes) < Len(result.vulnerabilities)

\* s is a prefix of t
IsPrefix(s, t) ==
    /\ Len(s) <= Len(t)
    /\ \A i \in 1..Len(s) : t[i] = s[i]

\* C12: the reasoning trace is append-only: across every step of a run the
\* trace before it is a prefix of the trace after it.
C12_TraceAppendOnly ==
    [][IsPrefix(reasoning_trace, reasoning_trace')]_vars

\* a run has returned with lines of all six of its stages in the trace
C12_Witness ==
    /\ pc = "done"
    /\ {WrittenBy(result.reasoning_trace[i].kind) : i \in 1..Len(result.reasoning_trace)}
           = Range(stage_log)

\* C14: the returned result has vulnerabilities_found = the length of its
\* vulnerabilities and fixes_generated = the length of its suggested_fixes;
\* its pr_url, risk_level, analysis_strategy, reasoning_trace, vulnerabilities
\* and suggested_fixes are those of the final state of the pipeline, and its
\* fixes are the ones that passed validate_fix.
C14_ResultReflectsFinalState ==
    pc = "done" =>
        /\ DOMAIN result = ResultKeys
        /\ result.vulnerabilities_found = Len(result.vulnerabilities)
        /\ result.fixes_generated = Len(result.suggested_fixes)
        /\ result.pr_url = pr_url
        /\ result.risk_level = risk_level
        /\ result.analysis_strategy = analysis_strategy
        /\ result.reasoning_trace = reasoning_trace
        /\ result.vulnerabilities = vulnerabilities
        /\ result.suggested_fixes = suggested_fixes
        /\ \A i \in 1..Len(result.suggested_fixes) : validate_fix(result.suggested_fixes[i])

\* a run has returned two or more findings and the one fix that passed
\* validation
C14_Witness ==
    /\ pc = "done"
    /\ result.vulnerabilities_found >= 2
    /\ result.fixes_generated = 1
    /\ \E i \in 1..Len(reasoning_trace) : reasoning_trace[i].kind = "fix_validation_failed"

\* the report _format_review_comment builds for an empty list of findings
EmptyFindingsReport ==
    [summary |-> "No security vulnerabilities detected",
     vulnerabilities |-> <<>>, suggested_fixes |-> <<>>, reasoning_trace |-> <<>>]

\* the run works on the diff of a pull request that changes documentation
\* only, and the answer to the risk request held none of the risk substrings
DocsOnlyLowRisk ==
    /\ live_pr = pr_docs
    /\ sources.diff = "live"
    /\ diff_content = live_pr_diff(pr_docs)
    /\ \E i \in 1..Len(reasoning_trace) :
           /\ reasoning_trace[i].kind = "llm_reasoning"
           /\ TierOf(reasoning_trace[i].text) = "low"

\* what holds of the documentation-only run at each point
DocsOnlyRunSoFar ==
    /\ pc # "failed"
    /\ risk_level = "low"
    /\ analysis_strategy = "quick_scan"
    /\ pc = CASE Len(stage_log) = 2 -> "quick_scan"
              [] Len(stage_log) = 3 -> "generate_fixes"
              [] Len(stage_log) = 4 -> "validate_fixes"
              [] Len(stage_log) = 5 -> "post_review"
              [] Len(stage_log) = 6 -> IF result = <<>> THEN "END" ELSE "done"
    /\ Len(stage_log) >= 3 => stage_log[3] = "quick_scan"
    /\ vulnerabilities = <<>>
    /\ suggested_fixes = <<>>
    /\ \A i \in 1..Len(llm_calls) : llm_calls[i].kind = "risk"
    /\ "quick_scan" \in Range(stage_log) =>
           \E i \in 1..Len(reasoning_trace) :
               reasoning_trace[i].kind = "quick_scan_found" /\ reasoning_trace[i].n = 0
    /\ "generate_fixes" \in Range(stage_log) =>
           \E i \in 1..Len(reasoning_trace) :
               reasoning_trace[i].kind = "skipping_fix_generation"
    /\ "post_review" \in Range(stage_log) =>
           /\ \E i \in 1..Len(api_calls) : api_calls[i].call = "post_review"
           /\ review_posted = ~PublishFailed
           /\ review_posted =>
                  /\ Len(posted) = 1
                  /\ posted[1].body = EmptyFindingsReport
                  /\ posted[1].inline_suggestions = 0
                  /\ Last(reasoning_trace).kind = "review_posted"

C16_ConcatenatedQueryReported ==
    fn_out[1] = "quick_scan" =>
        \A n \in 1..Len(Split(fn_in, "\n")) :
            Split(fn_in, "\n")[n] = ln_query_concat =>
                \E k \in 1..Len(fn_out[2]) :
                    /\ fn_out[2][k].type = "sql_injection"
                    /\ fn_out[2][k].severity = "critical"
                    /\ fn_out[2][k].line = n

\* the severity the mapping is said to give a category
StatedSeverity(category) ==
    CASE category = "sql_injection" -> "critical"
      [] category \in {"hardcoded_credentials", "xss", "path_traversal", "command_injection"}
             -> "high"
      [] category = "weak_crypto" -> "medium"
      [] OTHER -> "medium"

\* C17: the mapping from category to severity gives critical for
\* sql_injection, high for hardcoded_credentials, xss, path_traversal and
\* command_injection, medium for weak_crypto and medium for every other
\* category.
C17_SeverityOfCategory ==
    fn_out[1] = "get_severity" =>
        \A i \in 1..Len(fn_in) : fn_out[2][i] = StatedSeverity(fn_in[i])

RECURSIVE IsSubsequence(_, _)
\* s is t with some entries left out: same entries, same order
IsSubsequence(s, t) ==
    IF Len(s) = 0 THEN TRUE
    ELSE IF Len(t) = 0 THEN FALSE
    ELSE IF s[1] = t[1] THEN IsSubsequence(Tail(s), Tail(t))
    ELSE IsSubsequence(s, Tail(t))

\* C19: once fetch_pr has completed no step changes pr_url, pr_data or
\* diff_content; generate_fixes, validate_fixes and post_review leave the
\* vulnerability list as it is; validate_fixes leaves a fix list that is the
\* old one with entries dropped, every kept fix unchanged.
C19_FetchedDataAndFindingsFrozen ==
    [][/\ pc \in (Stages \cup {"END"}) \ {"fetch_pr"} =>
              /\ pr_url' = pr_url
              /\ pr_data' = pr_data
              /\ diff_content' = diff_content
       /\ pc \in {"generate_fixes", "validate_fixes", "post_review", "END"} =>
              vulnerabilities' = vulnerabilities
       /\ pc = "validate_fixes" => IsSubsequence(suggested_fixes', suggested_fixes)
       /\ pc \in {"post_review", "END"} => suggested_fixes' = suggested_fixes]_vars

\* validate_fixes has dropped one fix and kept another, and post_review is
\* about to run on the findings of the scan
C19_Witness ==
    /\ pc = "post_review"
    /\ Len(vulnerabilities) >= 2
    /\ Len(suggested_fixes) >= 1
    /\ \E i \in 1..Len(reasoning_trace) : reasoning_trace[i].kind = "fix_validation_failed"
    /\ pr_data # <<>>
    /\ diff_content # <<>>

\* C20: for an answer holding a fenced block labelled python, the fixed code
\* extracted is the code between the fences with leading and trailing white
\* space removed, and validate_fix accepts the fix whenever that code is
\* syntactically valid.
C20_FencedBlockRoundTrip ==
    fn_out[1] = "generate_fix" =>
        /\ fn_out[2].fix.fixed_code = Strip(BlockContents(fn_in))
        /\ ast_parse_ok(BlockContents(fn_in)) => fn_out[2].valid

\* the frame of the call named run, executing or suspended
View(run) ==
    IF other.run = run THEN other.frame ELSE Frame

\* the lines _fetch_pr_data writes for url, data and diff
SoloFetchLines(url, data, diff) ==
    <<Entry("fetching", "", 0, 0, url),
      Entry("retrieved", "", Len(diff),
            IF "changed_files" \in DOMAIN data THEN data.changed_files ELSE 0, <<>>)>>

\* the lines _assess_risk writes for the classification c of response
SoloRiskLines(c, response) ==
    <<Entry("risk_assessment", c.risk_level, 0, 0, RiskUpper(c.risk_level)),
      Entry("chosen_strategy", c.strategy, 0, 0, <<>>),
      Entry("llm_reasoning", "", 0, 0, Take(Lower(response), ReasoningLen))>>

\* what _quick_scan leaves: the findings, its lines, no reply used
SoloQuick(found) ==
    [vulns |-> found,
     lines |-> <<Entry("quick_scan_found", "", Len(found), 0, <<>>)>> \o
               [i \in 1..Min(Len(found), ShownFindings) |->
                   Entry("finding", found[i].type, 0, 0,
                         Take(found[i].description, ShownDescriptionLen))],
     used |-> 0]

\* what _deep_analysis leaves after k replies
SoloDeep(quick_vulns, deep_vulns, k) ==
    [vulns |-> quick_vulns \o deep_vulns,
     lines |-> <<Entry("deep_analysis", "", Len(quick_vulns), Len(deep_vulns), <<>>),
                 Entry("total", "", Len(quick_vulns) + Len(deep_vulns), 0, <<>>)>>,
     used |-> k]

\* _deep_analysis over candidates, answered by the replies after the first
SoloDeepOver(quick_vulns, candidates, replies) ==
    SoloDeep(quick_vulns,
             AnalyzeFrom(candidates, [i \in 1..Len(candidates) |-> replies[i + 1]], 1),
             Len(candidates))

\* the scan the strategy of c selects
SoloScan(c, diff, replies) ==
    IF route_by_risk(c.strategy) = "deep"
    THEN SoloDeepOver(quick_scan(diff), deep_candidates(diff), replies)
    ELSE SoloQuick(quick_scan(diff))

\* the dict returned once validation left v and the review was posted or not
SoloReturn(url, c, vulns, trace, v, post_ok) ==
    [pr_url |-> url,
     risk_level |-> c.risk_level,
     analysis_strategy |-> c.strategy,
     vulnerabilities_found |-> Len(vulns),
     fixes_generated |-> Len(v.valid_fixes),
     reasoning_trace |-> trace \o v.lines \o
                         <<IF post_ok THEN Entry("review_posted", "", 0, 0, <<>>)
                           ELSE Entry("review_failed", "", 0, 0, <<>>)>>,
     vulnerabilities |-> vulns,
     suggested_fixes |-> v.valid_fixes]

RECURSIVE SoloFixesFrom(_, _, _, _, _)
\* the loop of _generate_fixes from finding i on: each fix is read from the
\* reply that follows the n replies used before it
SoloFixesFrom(vulns, replies, n, i, fixes) ==
    IF i > Len(vulns) THEN fixes
    ELSE SoloFixesFrom(vulns, replies, n + 1, i + 1,
                       Append(fixes, generate_fix(vulns[i], SnippetOf(vulns[i]),
                                                  replies[n + 1])))

\* _generate_fixes and _validate_fixes over the findings of scan, the fixes
\* answered by the replies that follow those the scan used
SoloFix(url, c, scan, head, replies, post_ok) ==
    SoloReturn(url, c, scan.vulns,
               head \o scan.lines \o
               <<IF Len(scan.vulns) = 0
                 THEN Entry("skipping_fix_generation", "", 0, 0, <<>>)
                 ELSE Entry("generated", "", Len(scan.vulns), 0, <<>>)>>,
               ValidateFrom(SoloFixesFrom(scan.vulns, replies, scan.used + 1, 1, <<>>),
                            1, <<>>, <<>>),
               post_ok)

\* the run from _assess_risk on, over data and diff
SoloFrom(url, data, diff, c, replies, post_ok) ==
    SoloFix(url, c, SoloScan(c, diff, replies),
            SoloFetchLines(url, data, diff) \o SoloRiskLines(c, replies[1]),
            replies, post_ok)

\* what analyze_pr(url) returns when it is the only call on the agent and
\* its collaborators answer as recorded: GitHub as in api (with a client),
\* the reasoning service with replies, in order
SoloResult(url, client, pr, api, replies) ==
    SoloFrom(url,
             IF client /\ api[1].ok THEN live_pr_data(pr) ELSE mock_pr_data,
             IF client /\ api[2].ok THEN live_pr_diff(pr) ELSE mock_diff,
             classify_risk(replies[1]),
             replies,
             client => api[3].ok)

\* the steps of a call touch its own frame only
FramesKeptApart ==
    /\ other'.run = other.run => other'.frame = other.frame
    /\ other'.run # other.run => other'.frame = Frame /\ Frame' = other.frame

\* both calls have left analyze_pr
BothFinished ==
    /\ pc \in {"done", "failed"}
    /\ other.frame.pc \in {"done", "failed"}

NewRequests ==
    SubSeq(llm_calls', Len(llm_calls) + 1, Len(llm_calls'))

NewReplies ==
    SubSeq(llm_replies', Len(llm_replies) + 1, Len(llm_replies'))

\* the generate_fixes stage ran to its end without findings
GenerateFixesSkipped ==
    /\ NewRequests = <<>>
    /\ suggested_fixes' = <<>>
    /\ reasoning_trace' = Append(reasoning_trace,
                                 Entry("skipping_fix_generation", "", 0, 0, <<>>))

\* the generate_fixes stage ran to its end with findings
GenerateFixesLooped ==
    /\ NewRequests = [i \in 1..Len(vulnerabilities) |-> [kind |-> "fix", index |-> i]]
    /\ Len(NewReplies) = Len(vulnerabilities)
    /\ Len(suggested_fixes') = Len(vulnerabilities)
    /\ \A i \in 1..Len(vulnerabilities) :
           /\ suggested_fixes'[i] = generate_fix(vulnerabilities[i],
                                                 SnippetOf(vulnerabilities[i]),
                                                 NewReplies[i])
           /\ suggested_fixes'[i].vulnerability_id = vulnerabilities[i].type
           /\ suggested_fixes'[i].original_code = SnippetOf(vulnerabilities[i])

\* C21: a generate_fixes stage that runs to its end issues no request, empties
\* the fix list and appends the skip note when there is no finding; else it
\* issues one fix request per finding, numbered in the order of the findings,
\* and leaves a fix list as long as the findings whose i-th fix is built from
\* the i-th finding and the i-th reply. A stage that fails has issued the
\* requests up to the failing one and no more.
C21_OneFixPerFindingInOrder ==
    [][pc = "generate_fixes" =>
           IF pc' = "failed"
           THEN /\ NewRequests # <<>>
                /\ Len(NewRequests) <= Len(vulnerabilities)
                /\ NewRequests = Requests("fix", Len(NewRequests))
           ELSE IF Len(vulnerabilities) = 0 THEN GenerateFixesSkipped
                ELSE GenerateFixesLooped]_vars

\* the stage has just built fixes for findings of two different categories
C21_Witness ==
    /\ pc = "validate_fixes"
    /\ Len(vulnerabilities) >= 2
    /\ Len(suggested_fixes) = Len(vulnerabilities)
    /\ vulnerabilities[1].type # vulnerabilities[2].type
    /\ suggested_fixes[1].vulnerability_id = vulnerabilities[1].type
    /\ suggested_fixes[2].vulnerability_id = vulnerabilities[2].type

\* the trace lines a step appended
NewLines ==
    SubSeq(reasoning_trace', Len(reasoning_trace) + 1, Len(reasoning_trace'))

\* the line validate_fixes writes for a candidate
VerdictLine(fix) ==
    Entry(IF validate_fix(fix) THEN "fix_validated" ELSE "fix_validation_failed",
          fix.type, 0, 0, <<>>)

\* C22: a validate_fixes step leaves exactly the candidates validate_fix
\* accepts, in their order, and appends one line per candidate, in candidate
\* order, saying whether that candidate passed or failed.
C22_KeepsPassingFixesInOrder ==
    [][pc = "validate_fixes" =>
           /\ suggested_fixes' = SelectSeq(suggested_fixes, validate_fix)
           /\ IsPrefix(reasoning_trace, reasoning_trace')
           /\ NewLines = [i \in 1..Len(suggested_fixes) |-> VerdictLine(suggested_fixes[i])]]_vars

\* validation has just dropped the first of two candidates and kept the second
C22_Witness ==
    /\ pc = "post_review"
    /\ Len(vulnerabilities) = 2
    /\ Len(suggested_fixes) = 1
    /\ suggested_fixes[1].vulnerability_id = vulnerabilities[2].type
    /\ vulnerabilities[1].type # vulnerabilities[2].type
    /\ reasoning_trace[Len(reasoning_trace) - 1].kind = "fix_validation_failed"
    /\ Last(reasoning_trace).kind = "fix_validated"

\* what Python does with the texts handed to validate_fix: ast.parse
\* accepts a text as a module when every line is a statement at column 0, an
\* empty line or a blank one
ParsesStandalone(code) ==
    \A line \in Range(Split(code, "\n")) : line \in AcceptedLines

\* and accepts it as the body of a function when its lines other than empty
\* and blank ones are statements at one depth, and there is one
ParsesAsFunctionBody(code) ==
    \E statement \in {py_value_load, py_indented_call} :
        /\ statement \in Range(Split(code, "\n"))
        /\ \A line \in Range(Split(code, "\n")) : line \in {statement, <<>>, py_blank}

\* the fixed_code of the fix handed to validate_fix
CodeToValidate ==
    IF "fixed_code" \in DOMAIN fn_in THEN fn_in.fixed_code ELSE <<>>

\* the verdict the rule gives for code
StatedVerdict(code) ==
    IF code = <<>> THEN FALSE
    ELSE IF ParsesStandalone(code) \/ ParsesAsFunctionBody(code) THEN TRUE
    ELSE Len(code) > 10

\* C23: validate_fix returns False for an empty fixed_code; else True when
\* the code parses as a module or as the body of a function; else True
\* exactly when the code is longer than 10 characters. So it returns False
\* only for an empty code or one of at most 10 characters that parses in
\* neither way.
C23_ValidateFixRule ==
    fn_out[1] = "validate_fix" =>
        /\ fn_out[2] = StatedVerdict(CodeToValidate)
        /\ ~fn_out[2] =>
               \/ CodeToValidate = <<>>
               \/ /\ Len(CodeToValidate) <= 10
                  /\ ~ParsesStandalone(CodeToValidate)
                  /\ ~ParsesAsFunctionBody(CodeToValidate)

\* a code of 11 characters that parses in neither way was accepted
C23_Witness ==
    /\ fn_out = <<"validate_fix", TRUE>>
    /\ Len(CodeToValidate) = 11
    /\ ~ParsesStandalone(CodeToValidate)
    /\ ~ParsesAsFunctionBody(CodeToValidate)

\* how often stage occurs in log
TimesIn(log, stage) ==
    Cardinality({i \in 1..Len(log) : log[i] = stage})

\* the findings the scan stage of this run produced: those of the scan the
\* risk reply selects, over the diff, answered by the replies that follow
ScanStageFindings ==
    SoloScan(classify_risk(llm_replies[1]), diff_content, llm_replies).vulns

\* the review GitHub holds after post_review was handed the lists of the state
ReviewOfState ==
    [pr |-> parse_pr_url(pr_url).number,
     inline_suggestions |-> Len(suggested_fixes),
     body |-> format_review_comment(vulnerabilities, suggested_fixes, reasoning_trace)]

\* C24: post_review runs at most once in a run and only when validate_fixes
\* has returned; when it runs, every fix of the list it hands to the GitHub
\* client passes validate_fix and the findings it hands over are the list the
\* scan stage produced; a review created on GitHub is made of these lists.
C24_PublishesValidatedBundleOnce ==
    /\ [](/\ TimesIn(stage_log, "post_review") <= 1
          /\ TimesIn([i \in 1..Len(api_calls) |-> api_calls[i].call], "post_review") <= 1
          /\ Len(posted) <= 1
          /\ pc = "post_review" => Last(stage_log) = "validate_fixes")
    /\ [][pc = "post_review" =>
              /\ \A i \in 1..Len(suggested_fixes) : validate_fix(suggested_fixes[i])
              /\ vulnerabilities = ScanStageFindings
              /\ posted' # posted => posted' = <<ReviewOfState>>]_vars

\* a review was created on GitHub with the one fix that passed, after
\* validation dropped another
C24_Witness ==
    /\ pc = "END"
    /\ Last(stage_log) = "post_review"
    /\ Len(posted) = 1
    /\ posted[1].inline_suggestions = 1
    /\ Len(vulnerabilities) >= 2
    /\ \E i \in 1..Len(reasoning_trace) : reasoning_trace[i].kind = "fix_validation_failed"

\* C25: a run in which get_pr_data or get_pr_diff returned the mock data
\* creates no review on GitHub.
C25_MockReportNeverPosted ==
    FellBack => posted = <<>>

\* C26: the pull request data and the diff a run stores come from the same
\* source, both from GitHub or both from the mock data.
C26_DataAndDiffFromOneSource ==
    sources.pr_data = sources.diff

\* C27: one deep_analysis analyses the first 10 structural candidates of a
\* text that parses, in the order found, and the first 3 consecutive 50-line
\* chunks of a text that does not; it makes at most 10 calls of the
\* reasoning service and returns at most 10 findings, at most one a call
ExpectedCandidates ==
    IF fn_in.parses
    THEN [i \in 1..Min(fn_in.lines, 10) |-> py_raw_call(LetterAt(i))]
    ELSE [k \in 1..Min((fn_in.lines + 49) \div 50, 3) |->
              Join([j \in 1..Min(50, fn_in.lines - 50 * (k - 1)) |->
                        py_open_call(50 * (k - 1) + j)], s_newline)]

C27_DeepAnalysisBounded ==
    fn_out[1] = "deep_analysis" =>
        /\ fn_out[2].candidates = ExpectedCandidates
        /\ Len(fn_out[2].candidates) <= 10
        /\ Len(fn_out[2].vulnerabilities) <= Len(fn_out[2].candidates)
        /\ Len(fn_out[2].vulnerabilities) <= 10

C27_Witness ==
    /\ fn_out[1] = "deep_analysis"
    /\ \/ fn_in.parses /\ fn_in.lines > 10 /\ Len(fn_out[2].vulnerabilities) = 10
       \/ ~fn_in.parses /\ fn_in.lines > 150 /\ Len(fn_out[2].vulnerabilities) = 3

\* the first entry of order one of whose phrases occurs in low, else default
FirstPhraseMatch(order, low, default) ==
    LET hits == {i \in DOMAIN order : \E phrase \in order[i].phrases : Contains(low, phrase)}
    IN  IF hits = {} THEN default ELSE order[SetMin(hits)].name

CategoryOrder ==
    <<[phrases |-> {s_sql_injection}, name |-> "sql_injection"],
      [phrases |-> {s_credential, s_password}, name |-> "hardcoded_credentials"],
      [phrases |-> {s_xss}, name |-> "xss"],
      [phrases |-> {s_path_traversal}, name |-> "path_traversal"]>>

SeverityOrder ==
    <<[phrases |-> {s_critical}, name |-> "critical"],
      [phrases |-> {s_high}, name |-> "high"],
      [phrases |-> {s_low}, name |-> "low"]>>

\* the stated outcome of one analysis whose findings are labelled method
StatedAnalysis(found, analysis, method) ==
    IF \E phrase \in {s_no_security_issues, s_no_vulnerabilities} :
           Contains(Lower(analysis), phrase)
    THEN found = <<>>
    ELSE /\ Len(found) = 1
         /\ found[1].type = FirstPhraseMatch(CategoryOrder, Lower(analysis), "unknown")
         /\ found[1].severity = FirstPhraseMatch(SeverityOrder, Lower(analysis), "medium")
         /\ found[1].detection_method = method
         /\ found[1].description = SubSeq(analysis, 1, Min(300, Len(analysis)))

\* C28: a response holding "no security issues" or "no vulnerabilities" in
\* any letter case yields no finding; any other yields one finding with the
\* first category of sql injection, credential/password, xss, path
\* traversal, else unknown, the first severity of critical, high, low, else
\* medium, the detection method structural_llm and the first 300 characters
\* of the response as description
C28_AnalysisOutcome ==
    fn_out[1] = "analyze_with_llm" => StatedAnalysis(fn_out[2], fn_in, "structural_llm")

\* the same outcome under the label the findings carry
AnalysisOutcomeAsLabelled ==
    fn_out[1] = "analyze_with_llm" => StatedAnalysis(fn_out[2], fn_in, "llm_analysis")

\* a secret is configured and the signature header is missing or is not the
\* HMAC-SHA256 of the body under it
BadSignature ==
    /\ fn_in.secret \notin {"unset", ""}
    /\ fn_in.signature # SignatureOf(fn_in.secret, fn_in.body)

\* the action the body of the request names
SentAction ==
    IF fn_in.body = "no_pull_request" THEN "opened" ELSE fn_in.body

\* an analysis starts only for a verified pull_request event whose action is
\* opened or synchronize, and a request with a bad signature starts neither
\* event logging nor analysis
WebhookGuarded ==
    fn_out[1] = "webhook_handler" =>
        /\ fn_out[2].analyses # <<>> =>
               /\ ~BadSignature
               /\ fn_in.event_type = "pull_request"
               /\ SentAction \in {"opened", "synchronize"}
        /\ BadSignature => fn_out[2].events = <<>> /\ fn_out[2].analyses = <<>>

\* C29: the webhook handler starts an analysis only when verification
\* passed, the event is pull_request and the action is opened or
\* synchronize; with a secret configured, a request whose signature header
\* is missing or is not the HMAC-SHA256 of the body is answered 401 and
\* starts neither event logging nor analysis
C29_WebhookVerified ==
    /\ WebhookGuarded
    /\ fn_out[1] = "webhook_handler" /\ BadSignature => fn_out[2].status = 401

\* the same with the answer 401 stated of the ASCII signatures only
WebhookVerifiedAscii ==
    /\ WebhookGuarded
    /\ fn_out[1] = "webhook_handler" /\ BadSignature /\ fn_in.signature.ascii
           => fn_out[2].status = 401

\* how far a run has come
StageRank(at) ==
    CASE at = "fetch_pr" -> 0
      [] at = "assess_risk" -> 1
      [] at \in {"quick_scan", "deep_analysis"} -> 2
      [] at = "generate_fixes" -> 3
      [] at = "validate_fixes" -> 4
      [] at = "post_review" -> 5
      [] at = "END" -> 6
      [] at \in {"done", "failed"} -> 7

\* the loop over the findings made one request for each of them and the loop
\* over the fixes wrote one verdict for each of them
LoopsRunListLength ==
    /\ pc = "generate_fixes" /\ pc' # "failed" =>
           Len(SubSeq(llm_calls', Len(llm_calls) + 1, Len(llm_calls'))) = Len(vulnerabilities)
    /\ pc = "validate_fixes" =>
           Len(SubSeq(reasoning_trace', Len(reasoning_trace) + 1, Len(reasoning_trace')))
               = Len(suggested_fixes)

\* C30: a run in which every call of the repository client and of the
\* reasoning service returns reaches END and analyze_pr returns; a run ends
\* otherwise only because such a call raised; every step moves the run
\* forward, so it ends after finitely many steps and enters no stage twice;
\* and the loops over the findings and over the fixes run once for each
\* element of their list
C30_RunTerminates ==
    /\ <>(pc = "done" \/ error # "none")
    /\ [](pc = "failed" <=> error # "none")
    /\ [](NoRepeats(stage_log))
    /\ [][/\ StageRank(pc') > StageRank(pc)
          /\ pc' = "done" => pc = "END"
          /\ LoopsRunListLength]_vars

\* a run through deep_analysis has returned with two findings or more and a
\* fix kept, no call having raised
C30_Witness ==
    /\ pc = "done"
    /\ error = "none"
    /\ "deep_analysis" \in Range(stage_log)
    /\ Len(vulnerabilities) >= 2
    /\ Len(suggested_fixes) >= 1

====
